---- MODULE Spec2Model ----
(***************************************************************************)
(* State-machine model of the comment subsystem of the content platform:   *)
(*   src/src/api/comments.py              (request handlers)               *)
(*   src/src/services/comment_service.py  (CommentService)                 *)
(*   src/src/models/comment.py            (Comment, Reaction tables)       *)
(* Requests are run by processes; one step of a process is one database    *)
(* transaction or one cache operation, the points at which other requests  *)
(* can interleave.                                                         *)
(***************************************************************************)
EXTENDS Integers, Sequences, FiniteSets

\* ------------------------------------------------------------------ bounds
\* comment rows of the threading specification
MaxThreadComments == 5
\* comment rows of the comment-count specification
MaxCountComments == 3
\* reaction rows ever inserted in the sequential reaction specification
MaxReactionRows == 2
\* reaction rows ever inserted in the concurrent reaction specification
MaxConcReactionRows == 2
\* comment rows of the rate-limit specification
MaxRateComments == 11
\* value of a comment_rate counter in the rate-limit specification
MaxRateCount == 12
\* comment rows of the specification of rate limit and depth limit together
MaxSlotComments == 4
\* rate checks passed by a user in that specification
MaxSlotPassed == 11
\* comment rows of the listing specification
MaxListComments == 3
\* reaction rows ever inserted in the reaction-counts specification
MaxReadReactionRows == 2
\* comment rows of the create specification
MaxCreateComments == 3
\* comment rows of the concurrent rate-limit specification
MaxConcRateComments == 11
\* value of the comment_rate counter in that specification
MaxConcRateCount == 12
\* article rows created in the article specification
MaxArticles == 2
\* comment rows of the store-failure specification
MaxFaultComments == 3
\* comment rows of the API specification
MaxApiComments == 4
\* reaction rows ever inserted in the API specification
MaxApiReactionRows == 1

\* ------------------------------------------------------- program constants
\* create_comment: "if depth >= 3"
MAX_DEPTH == 3
\* check_rate_limit: "return count <= 10"
RATE_LIMIT == 10

\* HTTP statuses of the handlers; 0 = no response yet, 500 = unhandled exception
HTTP_OK == 200
HTTP_BAD_REQUEST == 400
HTTP_FORBIDDEN == 403
HTTP_NOT_FOUND == 404
HTTP_TOO_MANY == 429
HTTP_ERROR == 500

\* NULL of a nullable integer column / Optional[int] (ids start at 1)
Null == 0

\* request processes: requests in flight at the same time
Procs == {1, 2}
\* rows of users and articles (external collaborators; they exist throughout)
Users == {1, 2}
Articles == {1, 2}
\* request.article_id values tried: the articles and one id that names none
ArticleInputs == {1, 2, 3}

TOMBSTONE_AUTHOR == "[Comment removed]"
TOMBSTONE_MODERATOR == "[Removed by moderator]"
\* the five reaction kinds of add_reaction and get_reaction_counts
ReactionTypes == {"like", "love", "angry", "sad", "wow"}
\* comment ids of the reaction requests: two stored comments and an id that names none
ReactionTargets == {1, 2, 3}
ModerationActions == {"approve", "reject", "delete"}

\* ArticleStatus
DRAFT == "draft"
PENDING_REVIEW == "pending_review"
PUBLISHED == "published"
ARCHIVED == "archived"
ArticleStatus == {DRAFT, PENDING_REVIEW, PUBLISHED, ARCHIVED}
\* publish_at values of schedule_publish: two moments in the future
PublishTimes == {1, 2}

VARIABLES
    comments,         \* table comments: row id = index (serial primary key)
    comment_count,    \* articles.comment_count, per article id
    serial_count,     \* history: per article, the adjustments issued so far applied one after another, floored at 0
    reactions,        \* table reactions: set of rows [id, comment_id, user_id, reaction_type]
    next_reaction_id, \* serial of reactions.id
    cache_enabled,    \* CommentService.cache is not None
    articles,         \* table articles: row id = index; [author_id, status, scheduled_for, published]
    rate_keys,        \* cache keys comment_rate:<user>: [count, expires] or NoKey
    rate_window,      \* history: per user, outcomes of the rate checks since the key was created,
                      \* and whether an hour has passed since its first check with the key still there
    reaction_cache,   \* cache keys reactions:<comment>: counts or NoKey
    toggle_log,       \* history: the last two completed toggle_reaction calls
    plain,            \* history: the same reaction calls run by a service built with cache=None
    pc,               \* per process: where its request is
    req,              \* per process: the request's parameters and locals
    response          \* per process: HTTP status of its last completed request (0: none)

vars == <<comments, comment_count, serial_count, reactions, next_reaction_id,
          cache_enabled, articles, rate_keys, rate_window, reaction_cache, toggle_log,
          plain, pc, req, response>>

commentVars == <<comments, comment_count, serial_count>>
storedReactionVars == <<reactions, next_reaction_id, reaction_cache, toggle_log>>
reactionVars == <<storedReactionVars, plain>>
rateVars == <<rate_keys, rate_window>>

\* ----------------------------------------------------------------- helpers
Max(a, b) == IF a >= b THEN a ELSE b

NoKey == [present |-> FALSE, count |-> 0, expires |-> FALSE]

\* counts = {"like": 0, "love": 0, "angry": 0, "sad": 0, "wow": 0}
ZeroCounts == [t \in ReactionTypes |-> 0]

NoCacheEntry == [present |-> FALSE, counts |-> ZeroCounts]

NoReq ==
    [op |-> "none", author_id |-> 0, article_id |-> 0, parent_id |-> Null,
     comment_id |-> 0, content |-> "", reaction_type |-> "", action |-> "",
     existing |-> 0, existing_type |-> "", count |-> 0, counts |-> ZeroCounts,
     was_deleted |-> FALSE]

\* the body of a response: status, and for a reaction request the action and
\* the counts, for a listing request the ids of the comments returned
ResponseOf(status, action, counts, listing) ==
    [status |-> status, action |-> action, counts |-> counts, listing |-> listing]

NoResponse == ResponseOf(0, "", ZeroCounts, <<>>)

\* Comment(...) with the column defaults of models/comment.py
NewCommentTopLevel(content, article_id, author_id, parent_id) ==
    [content |-> content, article_id |-> article_id, author_id |-> author_id,
     parent_id |-> Null, is_approved |-> TRUE, is_deleted |-> FALSE,
     is_flagged |-> FALSE, flagged_reason |-> "", moderated_by |-> Null]
NewComment(content, article_id, author_id, parent_id) ==
    [content |-> content, article_id |-> article_id, author_id |-> author_id,
     parent_id |-> parent_id, is_approved |-> TRUE, is_deleted |-> FALSE,
     is_flagged |-> FALSE, flagged_reason |-> "", moderated_by |-> Null]

CommentIds == 1..Len(comments)

\* db.query(Comment).filter(Comment.id == id).first() finds a row
CommentExists(id) == id \in CommentIds

\* get_comment_depth's loop, from current_id with depth hops counted so far.
\* fuel counts the iterations left before the walk has visited more rows than
\* the table holds, which only a cyclic parent chain allows: the loop then
\* never ends, reported as -1.
RECURSIVE DepthWalk(_, _, _)
DepthWalk(current_id, depth, fuel) ==
    IF current_id = Null THEN depth
    ELSE IF ~CommentExists(current_id) \/ comments[current_id].parent_id = Null THEN depth
    ELSE IF fuel = 0 THEN -1
    ELSE DepthWalk(comments[current_id].parent_id, depth + 1, fuel - 1)

get_comment_depth(comment_id) == DepthWalk(comment_id, 0, Len(comments))

\* create_comment's depth test on the parent's depth
DepthLimitReachedOff(depth) == depth > MAX_DEPTH
DepthLimitReached(depth) == depth >= MAX_DEPTH

\* _update_comment_count: UPDATE articles SET comment_count =
\* GREATEST(0, comment_count + :delta) WHERE id = :id, one statement; an id that
\* names no article updates no row
UpdateCommentCountNoFloor(article_id, delta) ==
    IF article_id \in Articles
    THEN [comment_count EXCEPT ![article_id] = @ + delta]
    ELSE comment_count
UpdateCommentCount(article_id, delta) ==
    IF article_id \in Articles
    THEN [comment_count EXCEPT ![article_id] = Max(0, @ + delta)]
    ELSE comment_count

\* history: one more adjustment issued against the article's count
NoteAdjustment(article_id, delta) ==
    IF article_id \in Articles
    THEN [serial_count EXCEPT ![article_id] = IF @ + delta < 0 THEN 0 ELSE @ + delta]
    ELSE serial_count

\* the foreign keys of a comments row, checked by the store when the INSERT
\* statement ends: the new row itself (id new_id) is then in the table, so a
\* parent_id equal to its own id satisfies comments.parent_id -> comments.id
ForeignKeysHold(row, new_id) ==
    /\ row.article_id \in Articles
    /\ row.author_id \in Users
    /\ row.parent_id = Null \/ CommentExists(row.parent_id) \/ row.parent_id = new_id

\* the request of p ends with this HTTP status (and, for a reaction request,
\* this body)
FinishWith(p, status, action, counts) ==
    /\ pc' = [pc EXCEPT ![p] = "idle"]
    /\ req' = [req EXCEPT ![p] = NoReq]
    /\ response' = [response EXCEPT ![p] =
                        ResponseOf(status, action, counts, <<>>)]

Finish(p, status) == FinishWith(p, status, "", ZeroCounts)

Goto(p, label, r) ==
    /\ pc' = [pc EXCEPT ![p] = label]
    /\ req' = [req EXCEPT ![p] = r]
    /\ response' = [response EXCEPT ![p] = NoResponse]


\* --------------------------------------------------- create_comment handler
\* check_rate_limit's result for the post-increment count
RateLimitAllowsOff(count) == count < RATE_LIMIT
RateLimitAllows(count) == count <= RATE_LIMIT

\* cache.incr(key): the value it returns, 1 for a key that does not exist
CacheIncrSaturating(key) ==
    IF key.present
    THEN (IF key.count > RATE_LIMIT THEN key.count ELSE key.count + 1)
    ELSE 1
CacheIncr(key) == (IF key.present THEN key.count ELSE 0) + 1

\* check_rate_limit: "if count == 1", the call that sets the expiry
FirstOfWindowOrSecond(count) == count <= 2
FirstOfWindow(count) == count = 1

\* history of the user's window: one more check passed / was rejected
WindowNote(user_id, allowed) ==
    [rate_window EXCEPT ![user_id] =
        IF allowed
        THEN [@ EXCEPT !.passed = @ + 1, !.total_passed = @ + 1]
        ELSE [@ EXCEPT !.rejected = @ + 1]]

\* create_comment up to the end of cache.incr (check_rate_limit), or, with no
\* cache, up to the return of check_rate_limit (True)
create_comment_check_rate_limit(p, author_id, article_id, parent_id, content) ==
    /\ pc[p] = "idle"
    /\ LET r == [NoReq EXCEPT !.op = "create", !.author_id = author_id,
                              !.article_id = article_id, !.parent_id = parent_id,
                              !.content = content]
           key == rate_keys[author_id]
           count == CacheIncr(key)
       IN  IF ~cache_enabled
           THEN /\ Goto(p, "cc_depth", r)
                /\ UNCHANGED rateVars
           ELSE /\ rate_keys' = [rate_keys EXCEPT ![author_id] =
                                    [present |-> TRUE, count |-> count,
                                     expires |-> key.present /\ key.expires]]
                /\ IF FirstOfWindow(count)
                   THEN /\ Goto(p, "cc_expire", [r EXCEPT !.count = count])
                        /\ UNCHANGED rate_window
                   ELSE /\ rate_window' = WindowNote(author_id, RateLimitAllows(count))
                        /\ IF RateLimitAllows(count)
                           THEN Goto(p, "cc_depth", r)
                           ELSE Finish(p, HTTP_TOO_MANY)
    /\ UNCHANGED <<commentVars, reactionVars, cache_enabled, articles>>

\* check_rate_limit: cache.expire(key, 3600) after the first increment of a
\* window, and its return
create_comment_rate_expire(p) ==
    /\ pc[p] = "cc_expire"
    /\ LET author_id == req[p].author_id
       IN  /\ rate_keys' = [rate_keys EXCEPT ![author_id] =
                               IF @.present THEN [@ EXCEPT !.expires = TRUE] ELSE @]
           /\ rate_window' = WindowNote(author_id, RateLimitAllows(req[p].count))
           /\ IF RateLimitAllows(req[p].count)
              THEN Goto(p, "cc_depth", req[p])
              ELSE Finish(p, HTTP_TOO_MANY)
    /\ UNCHANGED <<commentVars, reactionVars, cache_enabled, articles>>

\* create_comment: the nesting-depth check on request.parent_id. The parent
\* chain of a stored row never changes, so the queries of get_comment_depth
\* are one step. A walk that never ends leaves the request hung.
create_comment_check_depth(p) ==
    /\ pc[p] = "cc_depth"
    /\ IF req[p].parent_id = Null
       THEN Goto(p, "cc_insert", req[p])
       ELSE LET depth == get_comment_depth(req[p].parent_id)
            IN  IF depth = -1 THEN Goto(p, "cc_hung", req[p])
                ELSE IF DepthLimitReached(depth) THEN Finish(p, HTTP_BAD_REQUEST)
                ELSE Goto(p, "cc_insert", req[p])
    /\ UNCHANGED <<commentVars, reactionVars, rateVars, cache_enabled, articles>>

\* CommentService.create: db.add(comment); db.commit(). A foreign-key
\* violation raises out of the handler.
create_commit(p) ==
    /\ pc[p] = "cc_insert"
    /\ LET row == NewComment(req[p].content, req[p].article_id,
                             req[p].author_id, req[p].parent_id)
       IN  IF ForeignKeysHold(row, Len(comments) + 1)
           THEN /\ comments' = Append(comments, row)
                /\ Goto(p, "cc_count", req[p])
           ELSE /\ comments' = comments
                /\ Finish(p, HTTP_ERROR)
    /\ UNCHANGED <<comment_count, serial_count, reactionVars, rateVars, cache_enabled, articles>>

\* CommentService.create: _update_comment_count(article_id, 1), and the
\* handler's return
create_update_comment_count(p) ==
    /\ pc[p] = "cc_count"
    /\ comment_count' = UpdateCommentCount(req[p].article_id, 1)
    /\ serial_count' = NoteAdjustment(req[p].article_id, 1)
    /\ Finish(p, HTTP_OK)
    /\ UNCHANGED <<comments, reactionVars, rateVars, cache_enabled, articles>>

\* the cache drops a comment_rate key whose expiry has been set: its hour is over
rate_key_expires(user_id) ==
    /\ rate_keys[user_id].present
    /\ rate_keys[user_id].expires
    /\ rate_keys' = [rate_keys EXCEPT ![user_id] = NoKey]
    /\ rate_window' = [rate_window EXCEPT ![user_id] =
                          [@ EXCEPT !.passed = 0, !.rejected = 0]]
    /\ UNCHANGED <<commentVars, reactionVars, cache_enabled, articles, pc, req, response>>


\* check_rate_limit: cache.incr raises (the cache cannot be reached); nothing
\* in check_rate_limit or in the handler catches it
create_comment_incr_fails(p, author_id, article_id, parent_id, content) ==
    /\ pc[p] = "idle"
    /\ cache_enabled
    /\ Goto(p, "cc_failed",
            [NoReq EXCEPT !.op = "create", !.author_id = author_id,
                          !.article_id = article_id, !.parent_id = parent_id,
                          !.content = content])
    /\ UNCHANGED <<commentVars, reactionVars, rateVars, cache_enabled, articles>>

\* check_rate_limit is interrupted between cache.incr and cache.expire:
\* cache.expire raises, or the request is cancelled at the await
create_comment_interrupted(p) ==
    /\ pc[p] = "cc_expire"
    /\ Goto(p, "cc_failed", req[p])
    /\ UNCHANGED <<commentVars, reactionVars, rateVars, cache_enabled, articles>>

\* the exception leaves create_comment: the request is answered 500
create_comment_raises(p) ==
    /\ pc[p] = "cc_failed"
    /\ Finish(p, HTTP_ERROR)
    /\ UNCHANGED <<commentVars, reactionVars, rateVars, cache_enabled, articles>>

\* one hour passes after the first check of the user's window, none of the
\* user's checks being between its incr and its expire: the cache drops a key
\* whose expiry was set to that hour and keeps one that has no expiry
window_hour_passes(user_id) ==
    /\ rate_keys[user_id].present
    /\ ~rate_window[user_id].hour_over
    /\ \A q \in Procs : ~(pc[q] = "cc_expire" /\ req[q].author_id = user_id)
    /\ IF rate_keys[user_id].expires
       THEN /\ rate_keys' = [rate_keys EXCEPT ![user_id] = NoKey]
            /\ rate_window' = [rate_window EXCEPT ![user_id] =
                                  [@ EXCEPT !.passed = 0, !.rejected = 0]]
       ELSE /\ rate_keys' = rate_keys
            /\ rate_window' = [rate_window EXCEPT ![user_id].hour_over = TRUE]
    /\ UNCHANGED <<commentVars, reactionVars, cache_enabled, articles, pc, req, response>>

\* ------------------------------------------- CommentService.delete (author)
\* db.query(Comment).filter(id == comment_id, author_id == author_id).first()
OwnComment(comment_id, author_id) ==
    CommentExists(comment_id) /\ comments[comment_id].author_id = author_id

\* the table after delete's assignments to the row it found
SoftDeletedRemoved(comment_id) ==
    [c \in 1..(Len(comments) - 1) |->
        IF c < comment_id THEN comments[c] ELSE comments[c + 1]]
SoftDeletedWithReplies(comment_id) ==
    [c \in CommentIds |->
        IF c = comment_id \/ comments[c].parent_id = comment_id
        THEN [comments[c] EXCEPT !.is_deleted = TRUE, !.content = TOMBSTONE_AUTHOR]
        ELSE comments[c]]
SoftDeleted(comment_id) ==
    [comments EXCEPT ![comment_id] =
        [@ EXCEPT !.is_deleted = TRUE, !.content = TOMBSTONE_AUTHOR]]

\* delete up to its first db.commit(): the row is found, marked deleted and
\* given the tombstone whatever its is_deleted was; 404 when no row is found
delete_commit(p, comment_id, author_id) ==
    /\ pc[p] = "idle"
    /\ IF OwnComment(comment_id, author_id)
       THEN /\ comments' = SoftDeleted(comment_id)
            /\ Goto(p, "del_count",
                    [NoReq EXCEPT !.op = "delete", !.comment_id = comment_id,
                                  !.author_id = author_id,
                                  !.article_id = comments[comment_id].article_id,
                                  !.was_deleted = comments[comment_id].is_deleted])
       ELSE /\ comments' = comments
            /\ Finish(p, HTTP_NOT_FOUND)
    /\ UNCHANGED <<comment_count, serial_count, reactionVars, rateVars, cache_enabled, articles>>

\* delete: _update_comment_count(comment.article_id, -1), and the return
delete_update_comment_count(p) ==
    /\ pc[p] = "del_count"
    /\ comment_count' = UpdateCommentCount(req[p].article_id, -1)
    /\ serial_count' = NoteAdjustment(req[p].article_id, -1)
    /\ Finish(p, HTTP_OK)
    /\ UNCHANGED <<comments, reactionVars, rateVars, cache_enabled, articles>>

\* ------------------------------------- CommentService.get_article_comments
\* the rows of get_article_comments' query: filter(article_id == article_id,
\* parent_id == None, is_approved == True)
TopLevelApproved(article_id) ==
    {c \in CommentIds : /\ comments[c].article_id = article_id
                        /\ comments[c].parent_id = Null
                        /\ comments[c].is_approved}

\* order_by(created_at.desc()): ids are serial, a later row has the later
\* created_at
RECURSIVE NewestFirst(_)
NewestFirst(ids) ==
    IF ids = {} THEN <<>>
    ELSE LET newest == CHOOSE c \in ids : \A d \in ids : d <= c
         IN  <<newest>> \o NewestFirst(ids \ {newest})

\* .offset((page - 1) * per_page).limit(per_page)
PageOf(rows, page, per_page) ==
    LET first == (page - 1) * per_page + 1
        last == IF page * per_page <= Len(rows) THEN page * per_page ELSE Len(rows)
    IN  IF first > last THEN <<>> ELSE SubSeq(rows, first, last)

\* _build_comment_tree: "return comments", the rows as they are, no reply loaded
build_comment_tree(rows) == rows

get_article_comments(article_id, page, per_page) ==
    build_comment_tree(PageOf(NewestFirst(TopLevelApproved(article_id)), page, per_page))

\* get_article_comments handler (GET): one query, answered with the ids of
\* the rows returned
list_article_comments(p, article_id, page, per_page) ==
    /\ pc[p] = "idle"
    /\ pc' = pc
    /\ req' = [req EXCEPT ![p] = NoReq]
    /\ response' = [response EXCEPT ![p] =
                        ResponseOf(HTTP_OK, "", ZeroCounts,
                                   get_article_comments(article_id, page, per_page))]
    /\ UNCHANGED <<commentVars, reactionVars, rateVars, cache_enabled, articles>>

\* ---------------------------------------------------- CommentService.update
\* update's query: id, author and is_deleted == False; 404 when no row
update_read(p, comment_id, author_id, content) ==
    /\ pc[p] = "idle"
    /\ IF OwnComment(comment_id, author_id) /\ ~comments[comment_id].is_deleted
       THEN Goto(p, "upd_commit",
                 [NoReq EXCEPT !.op = "update", !.comment_id = comment_id,
                               !.author_id = author_id, !.content = content])
       ELSE Finish(p, HTTP_NOT_FOUND)
    /\ UNCHANGED <<commentVars, reactionVars, rateVars, cache_enabled, articles>>

\* update: comment.content = content; db.commit() (UPDATE ... WHERE id = :id)
update_commit(p) ==
    /\ pc[p] = "upd_commit"
    /\ comments' = [comments EXCEPT ![req[p].comment_id] =
                       [@ EXCEPT !.content = req[p].content]]
    /\ Finish(p, HTTP_OK)
    /\ UNCHANGED <<comment_count, serial_count, reactionVars, rateVars, cache_enabled, articles>>

\* ---------------------------------------------- CommentService.flag_comment
\* flag_comment's assignments to the row it found
FlaggedRowKeepsFirstReason(row, reason) ==
    IF row.is_flagged THEN row
    ELSE [row EXCEPT !.is_flagged = TRUE, !.flagged_reason = reason]
FlaggedRow(row, reason) ==
    [row EXCEPT !.is_flagged = TRUE, !.flagged_reason = reason]

\* flag_comment: the row, if found, is flagged with the reason; the handler
\* answers 200 either way
flag_comment(p, comment_id, reporter_id, reason) ==
    /\ pc[p] = "idle"
    /\ comments' = IF CommentExists(comment_id)
                   THEN [comments EXCEPT ![comment_id] = FlaggedRow(@, reason)]
                   ELSE comments
    /\ Finish(p, HTTP_OK)
    /\ UNCHANGED <<comment_count, serial_count, reactionVars, rateVars, cache_enabled, articles>>

\* -------------------------------------------------- CommentService.moderate
\* moderate's "approve" branch and the moderator stamp, on the row
ApprovedRowKeepsFlag(row, moderator_id) ==
    [row EXCEPT !.is_approved = TRUE, !.moderated_by = moderator_id]
ApprovedRow(row, moderator_id) ==
    [row EXCEPT !.is_flagged = FALSE, !.is_approved = TRUE, !.moderated_by = moderator_id]

\* moderate's "delete" branch, on the row
RemovedByModeratorKeepsContent(row) ==
    [row EXCEPT !.is_deleted = TRUE]
RemovedByModerator(row) ==
    [row EXCEPT !.is_deleted = TRUE, !.content = TOMBSTONE_MODERATOR]

\* moderate's "reject" branch and the moderator stamp, on the row
RejectedRowUnstamped(row, moderator_id) ==
    [row EXCEPT !.is_approved = FALSE]
RejectedRow(row, moderator_id) ==
    [row EXCEPT !.is_approved = FALSE, !.moderated_by = moderator_id]

\* moderate up to its first db.commit(). No row: comment is None and the first
\* attribute assignment raises. approve and reject commit once, with the
\* moderator stamp; delete commits the row change together with the count
\* adjustment (the commit inside _update_comment_count) and stamps afterwards.
moderate_commit(p, comment_id, moderator_id, action) ==
    /\ pc[p] = "idle"
    /\ IF ~CommentExists(comment_id)
       THEN /\ UNCHANGED commentVars
            /\ Finish(p, HTTP_ERROR)
       ELSE CASE action = "approve" ->
                    /\ comments' = [comments EXCEPT ![comment_id] =
                                       ApprovedRow(@, moderator_id)]
                    /\ UNCHANGED <<comment_count, serial_count>>
                    /\ Finish(p, HTTP_OK)
              [] action = "reject" ->
                    /\ comments' = [comments EXCEPT ![comment_id] =
                                       RejectedRow(@, moderator_id)]
                    /\ UNCHANGED <<comment_count, serial_count>>
                    /\ Finish(p, HTTP_OK)
              [] action = "delete" ->
                    /\ comments' = [comments EXCEPT ![comment_id] = RemovedByModerator(@)]
                    /\ comment_count' = UpdateCommentCount(comments[comment_id].article_id, -1)
                    /\ serial_count' = NoteAdjustment(comments[comment_id].article_id, -1)
                    /\ Goto(p, "mod_stamp",
                            [NoReq EXCEPT !.op = "moderate", !.comment_id = comment_id,
                                          !.author_id = moderator_id, !.action = action])
    /\ UNCHANGED <<reactionVars, rateVars, cache_enabled, articles>>

\* moderate(delete): comment.moderated_by = moderator_id; db.commit()
moderate_stamp(p) ==
    /\ pc[p] = "mod_stamp"
    /\ comments' = [comments EXCEPT ![req[p].comment_id] =
                       [@ EXCEPT !.moderated_by = req[p].author_id]]
    /\ Finish(p, HTTP_OK)
    /\ UNCHANGED <<comment_count, serial_count, reactionVars, rateVars, cache_enabled, articles>>

\* ------------------------- moderate_comment / get_moderation_queue handlers
\* users.role of the two users: a reader and an editor
RoleOf == [u \in Users |-> IF u = 2 THEN "editor" ELSE "reader"]

\* the names bound in module comment_service when a method runs: its imports
\* and its class
ServiceGlobals ==
    {"datetime", "timedelta", "List", "Optional", "Session", "Comment", "Reaction",
     "UserRole", "CommentService"}

\* is_moderator: db.query(User).filter(User.id == user_id).first(), then
\* "user and user.role in [UserRole.EDITOR, UserRole.ADMIN]". Evaluating a
\* name that is not bound raises NameError.
is_moderator(user_id) ==
    IF "User" \notin ServiceGlobals THEN "NameError"
    ELSE IF user_id \in Users /\ RoleOf[user_id] \in {"editor", "admin"} THEN "True"
    ELSE "False"

\* get_moderation_queue: filter(is_flagged == True, is_deleted == False)
FlaggedWithDeleted == {c \in CommentIds : comments[c].is_flagged}
Flagged == {c \in CommentIds : comments[c].is_flagged /\ ~comments[c].is_deleted}

\* order_by(created_at.asc()): ids are serial, an earlier row has the earlier
\* created_at
RECURSIVE OldestFirst(_)
OldestFirst(ids) ==
    IF ids = {} THEN <<>>
    ELSE LET oldest == CHOOSE c \in ids : \A d \in ids : c <= d
         IN  <<oldest>> \o OldestFirst(ids \ {oldest})

get_moderation_queue == OldestFirst(Flagged)

\* moderate_comment handler: the role check, the check of the action, then
\* CommentService.moderate; an exception of is_moderator leaves the handler
moderate_comment(p, comment_id, moderator_id, action) ==
    /\ pc[p] = "idle"
    /\ CASE is_moderator(moderator_id) = "NameError" ->
                /\ Finish(p, HTTP_ERROR)
                /\ UNCHANGED <<commentVars, reactionVars, rateVars, cache_enabled, articles>>
         [] is_moderator(moderator_id) = "False" ->
                /\ Finish(p, HTTP_FORBIDDEN)
                /\ UNCHANGED <<commentVars, reactionVars, rateVars, cache_enabled, articles>>
         [] is_moderator(moderator_id) = "True" /\ action \notin ModerationActions ->
                /\ Finish(p, HTTP_BAD_REQUEST)
                /\ UNCHANGED <<commentVars, reactionVars, rateVars, cache_enabled, articles>>
         [] OTHER -> moderate_commit(p, comment_id, moderator_id, action)

\* CommentService.get_moderation_queue called on its own: one query, answered
\* with the ids of the rows returned
read_moderation_queue(p) ==
    /\ pc[p] = "idle"
    /\ pc' = pc
    /\ req' = [req EXCEPT ![p] = NoReq]
    /\ response' = [response EXCEPT ![p] =
                        ResponseOf(HTTP_OK, "", ZeroCounts, get_moderation_queue)]
    /\ UNCHANGED <<commentVars, reactionVars, rateVars, cache_enabled, articles>>

\* get_moderation_queue handler: the role check, then the queue
moderation_queue(p, moderator_id) ==
    /\ pc[p] = "idle"
    /\ pc' = pc
    /\ req' = [req EXCEPT ![p] = NoReq]
    /\ response' = [response EXCEPT ![p] =
            CASE is_moderator(moderator_id) = "NameError" ->
                    ResponseOf(HTTP_ERROR, "", ZeroCounts, <<>>)
              [] is_moderator(moderator_id) = "False" ->
                    ResponseOf(HTTP_FORBIDDEN, "", ZeroCounts, <<>>)
              [] OTHER -> ResponseOf(HTTP_OK, "", ZeroCounts, get_moderation_queue)]
    /\ UNCHANGED <<commentVars, reactionVars, rateVars, cache_enabled, articles>>

\* ------------------------------------------------- failures of the store
\* A statement or a commit raises (the store cannot be reached, the
\* connection is lost); no method of CommentService and no handler catches
\* it, the session's open transaction is rolled back and the request is
\* answered 500. What an earlier db.commit() of the request wrote stays.

\* the first commit of delete or of moderate fails: nothing is written
request_fails(p) ==
    /\ pc[p] = "idle"
    /\ Finish(p, HTTP_ERROR)
    /\ UNCHANGED <<commentVars, reactionVars, rateVars, cache_enabled, articles>>

\* create: db.commit() of the new row fails
create_commit_fails(p) ==
    /\ pc[p] = "cc_insert"
    /\ Finish(p, HTTP_ERROR)
    /\ UNCHANGED <<commentVars, reactionVars, rateVars, cache_enabled, articles>>

\* create: _update_comment_count(article_id, 1) fails after the row's commit
create_count_fails(p) ==
    /\ pc[p] = "cc_count"
    /\ Finish(p, HTTP_ERROR)
    /\ UNCHANGED <<commentVars, reactionVars, rateVars, cache_enabled, articles>>

\* delete: _update_comment_count(article_id, -1) fails after the row's commit
delete_count_fails(p) ==
    /\ pc[p] = "del_count"
    /\ Finish(p, HTTP_ERROR)
    /\ UNCHANGED <<commentVars, reactionVars, rateVars, cache_enabled, articles>>

\* moderate(delete): the commit of the moderator stamp fails after the commit
\* inside _update_comment_count
moderate_stamp_fails(p) ==
    /\ pc[p] = "mod_stamp"
    /\ Finish(p, HTTP_ERROR)
    /\ UNCHANGED <<commentVars, reactionVars, rateVars, cache_enabled, articles>>

\* ------------------------------------ add_reaction / toggle_reaction handler
\* toggle_reaction's query: the rows of this user on this comment
ExistingReactionsAnyUser(comment_id, user_id) ==
    {r \in reactions : r.comment_id = comment_id}
ExistingReactions(comment_id, user_id) ==
    {r \in reactions : r.comment_id = comment_id /\ r.user_id = user_id}

\* toggle_reaction's branch, from the row read (existing = 0: none)
ToggleActionKeep(existing, existing_type, reaction_type) ==
    IF existing # 0 THEN "changed" ELSE "added"
ToggleAction(existing, existing_type, reaction_type) ==
    IF existing # 0
    THEN IF existing_type = reaction_type THEN "removed" ELSE "changed"
    ELSE "added"

NewReaction(id, comment_id, user_id, reaction_type) ==
    [id |-> id, comment_id |-> comment_id, user_id |-> user_id,
     reaction_type |-> reaction_type]

\* the rows of table reactions after the commit of a toggle:
\* removed: DELETE ... WHERE id = existing; changed: UPDATE ... SET
\* reaction_type WHERE id = existing; added: INSERT of a new row
ReactionsAfterInsertOnChange(action, existing, comment_id, user_id, reaction_type) ==
    CASE action = "removed" -> {r \in reactions : r.id # existing}
      [] action = "changed" ->
            reactions \cup {NewReaction(next_reaction_id, comment_id, user_id, reaction_type)}
      [] action = "added" ->
            reactions \cup {NewReaction(next_reaction_id, comment_id, user_id, reaction_type)}
ReactionsAfter(action, existing, comment_id, user_id, reaction_type) ==
    CASE action = "removed" -> {r \in reactions : r.id # existing}
      [] action = "changed" ->
            {IF r.id = existing THEN [r EXCEPT !.reaction_type = reaction_type] ELSE r :
                r \in reactions}
      [] action = "added" ->
            reactions \cup {NewReaction(next_reaction_id, comment_id, user_id, reaction_type)}

\* the commit of a toggle fails: the UPDATE of a row that is gone matches no
\* row (StaleDataError), the INSERT of a row whose comment_id names no comment
\* violates reactions.comment_id -> comments.id
ToggleCommitFails(action, existing, comment_id) ==
    \/ action = "changed" /\ \A r \in reactions : r.id # existing
    \/ action = "added" /\ ~CommentExists(comment_id)

\* history: the last two committed toggles, each with the rows before it
NoteToggle(entry) ==
    IF toggle_log = <<>> THEN <<entry>> ELSE <<toggle_log[Len(toggle_log)], entry>>

\* get_reaction_counts' tally of the stored rows of the comment
TallyReactionsAnyComment(comment_id) ==
    [t \in ReactionTypes |-> Cardinality({r \in reactions : r.reaction_type = t})]
TallyReactions(comment_id) ==
    [t \in ReactionTypes |->
        Cardinality({r \in reactions : r.comment_id = comment_id /\ r.reaction_type = t})]

\* ---- history: the calls of the reaction handlers on a service built with
\* cache=None (self.cache is None: no cache.delete, no cache.get, no cache.set),
\* each call run from its start to its return. The history follows calls made
\* one at a time; a call that starts while another is in progress ends it.
PlainInit ==
    [reactions |-> {}, next_id |-> 1, response |-> NoResponse, from_cache |-> FALSE,
     stopped |-> FALSE]

PlainStopped == [PlainInit EXCEPT !.stopped = TRUE]

\* the history after a call of process p that leads it to one of states
PlainAfterCall(p, states) ==
    IF plain.stopped \/ \E q \in Procs \ {p} : pc[q] # "idle"
    THEN {PlainStopped}
    ELSE states

\* get_reaction_counts' tally over given rows
PlainTally(rows, comment_id) ==
    [t \in ReactionTypes |->
        Cardinality({r \in rows : r.comment_id = comment_id /\ r.reaction_type = t})]

\* toggle_reaction with cache=None, when its query returned row existing
\* (0: none): the branch, the commit (or its failure) and the counts
PlainToggle(st, comment_id, user_id, reaction_type, existing, existing_type) ==
    LET action == ToggleAction(existing, existing_type, reaction_type)
        rows == CASE action = "removed" -> {r \in st.reactions : r.id # existing}
                  [] action = "changed" ->
                        {IF r.id = existing THEN [r EXCEPT !.reaction_type = reaction_type]
                         ELSE r : r \in st.reactions}
                  [] action = "added" ->
                        st.reactions \cup
                            {NewReaction(st.next_id, comment_id, user_id, reaction_type)}
    IN  IF action = "added" /\ ~CommentExists(comment_id)
        THEN [st EXCEPT !.response = ResponseOf(HTTP_ERROR, "", ZeroCounts, <<>>),
                        !.from_cache = FALSE]
        ELSE [reactions |-> rows,
              next_id |-> IF action = "added" THEN st.next_id + 1 ELSE st.next_id,
              response |-> ResponseOf(HTTP_OK, action, PlainTally(rows, comment_id), <<>>),
              from_cache |-> FALSE, stopped |-> FALSE]

\* the states toggle_reaction with cache=None can leave: one for each row
\* its query's .first() can return
PlainToggleOutcomes(st, comment_id, user_id, reaction_type) ==
    LET found == {r \in st.reactions : r.comment_id = comment_id /\ r.user_id = user_id}
    IN  IF found = {}
        THEN {PlainToggle(st, comment_id, user_id, reaction_type, 0, "")}
        ELSE {PlainToggle(st, comment_id, user_id, reaction_type, r.id, r.reaction_type) :
                r \in found}

\* add_reaction's 400 for a kind that is none of the five
PlainRejected(st) ==
    [st EXCEPT !.response = ResponseOf(HTTP_BAD_REQUEST, "", ZeroCounts, <<>>),
               !.from_cache = FALSE]

\* get_reaction_counts with cache=None
PlainCounts(st, comment_id) ==
    [st EXCEPT !.response =
                   ResponseOf(HTTP_OK, "", PlainTally(st.reactions, comment_id), <<>>),
               !.from_cache = FALSE]

\* add_reaction: the kind is validated, then toggle_reaction's query picks
\* .first() of the matching rows (no ORDER BY: any of them)
toggle_read(p, comment_id, user_id, reaction_type) ==
    /\ pc[p] = "idle"
    /\ plain' \in PlainAfterCall(p,
                      IF reaction_type \notin ReactionTypes
                      THEN {PlainRejected(plain)}
                      ELSE PlainToggleOutcomes(plain, comment_id, user_id, reaction_type))
    /\ IF reaction_type \notin ReactionTypes
       THEN Finish(p, HTTP_BAD_REQUEST)
       ELSE LET r == [NoReq EXCEPT !.op = "toggle", !.comment_id = comment_id,
                                   !.author_id = user_id, !.reaction_type = reaction_type]
                found == ExistingReactions(comment_id, user_id)
            IN  IF found = {}
                THEN Goto(p, "tr_commit", r)
                ELSE \E row \in found :
                        Goto(p, "tr_commit", [r EXCEPT !.existing = row.id,
                                                       !.existing_type = row.reaction_type])
    /\ UNCHANGED <<commentVars, storedReactionVars, rateVars, cache_enabled, articles>>

\* toggle_reaction: db.delete / attribute change / db.add, and db.commit()
toggle_commit(p) ==
    /\ pc[p] = "tr_commit"
    /\ LET action == ToggleAction(req[p].existing, req[p].existing_type, req[p].reaction_type)
       IN  IF ToggleCommitFails(action, req[p].existing, req[p].comment_id)
           THEN /\ UNCHANGED <<reactions, next_reaction_id>>
                /\ toggle_log' = <<>>
                /\ Finish(p, HTTP_ERROR)
           ELSE /\ reactions' = ReactionsAfter(action, req[p].existing, req[p].comment_id,
                                               req[p].author_id, req[p].reaction_type)
                /\ next_reaction_id' = IF action = "added" THEN next_reaction_id + 1
                                       ELSE next_reaction_id
                /\ toggle_log' = NoteToggle(
                       [comment_id |-> req[p].comment_id, user_id |-> req[p].author_id,
                        reaction_type |-> req[p].reaction_type, action |-> action,
                        before |-> reactions])
                /\ Goto(p, IF cache_enabled THEN "tr_invalidate" ELSE "rc_query",
                        [req[p] EXCEPT !.action = action])
    /\ UNCHANGED <<commentVars, reaction_cache, plain, rateVars, cache_enabled, articles>>

\* cache.delete("reactions:<comment_id>"): the keys afterwards
CacheDeleteNothing(comment_id) == reaction_cache
CacheDelete(comment_id) == [reaction_cache EXCEPT ![comment_id] = NoCacheEntry]

\* toggle_reaction: cache.delete("reactions:<comment_id>")
toggle_invalidate(p) ==
    /\ pc[p] = "tr_invalidate"
    /\ reaction_cache' = CacheDelete(req[p].comment_id)
    /\ Goto(p, "rc_get", req[p])
    /\ UNCHANGED <<commentVars, reactions, next_reaction_id, toggle_log, plain, rateVars,
                   cache_enabled, articles>>

\* get_reactions handler (GET): the request enters get_reaction_counts
get_reactions(p, comment_id) ==
    /\ pc[p] = "idle"
    /\ Goto(p, IF cache_enabled THEN "rc_get" ELSE "rc_query",
            [NoReq EXCEPT !.op = "counts", !.comment_id = comment_id])
    /\ plain' \in PlainAfterCall(p, {PlainCounts(plain, comment_id)})
    /\ UNCHANGED <<commentVars, storedReactionVars, rateVars, cache_enabled, articles>>

\* get_reaction_counts: cache.get; a cached mapping is returned as it is
counts_cache_get(p) ==
    /\ pc[p] = "rc_get"
    /\ IF reaction_cache[req[p].comment_id].present
       THEN FinishWith(p, HTTP_OK, req[p].action, reaction_cache[req[p].comment_id].counts)
       ELSE Goto(p, "rc_query", req[p])
    /\ plain' = IF plain.stopped THEN plain
                ELSE [plain EXCEPT !.from_cache = reaction_cache[req[p].comment_id].present]
    /\ UNCHANGED <<commentVars, storedReactionVars, rateVars, cache_enabled, articles>>

\* get_reaction_counts: the query and the tally over the five kinds
counts_query(p) ==
    /\ pc[p] = "rc_query"
    /\ LET counts == TallyReactions(req[p].comment_id)
       IN  IF cache_enabled
           THEN Goto(p, "rc_set", [req[p] EXCEPT !.counts = counts])
           ELSE FinishWith(p, HTTP_OK, req[p].action, counts)
    /\ UNCHANGED <<commentVars, reactionVars, rateVars, cache_enabled, articles>>

\* get_reaction_counts: cache.set(key, counts, ex=300), and the return
counts_cache_set(p) ==
    /\ pc[p] = "rc_set"
    /\ reaction_cache' = [reaction_cache EXCEPT ![req[p].comment_id] =
                             [present |-> TRUE, counts |-> req[p].counts]]
    /\ FinishWith(p, HTTP_OK, req[p].action, req[p].counts)
    /\ UNCHANGED <<commentVars, reactions, next_reaction_id, toggle_log, plain, rateVars,
                   cache_enabled, articles>>

\* the cache drops a reactions key: its 300 seconds are over
reaction_cache_expires(comment_id) ==
    /\ reaction_cache[comment_id].present
    /\ reaction_cache' = [reaction_cache EXCEPT ![comment_id] = NoCacheEntry]
    /\ UNCHANGED <<commentVars, reactions, next_reaction_id, toggle_log, plain, rateVars,
                   cache_enabled, articles, pc, req, response>>

\* ------------------------------------------------------------ ArticleService
ArticleIds == 1..Len(articles)

\* Article(..., status=ArticleStatus.DRAFT): the row create inserts
NewArticle(author_id) ==
    [author_id |-> author_id, status |-> DRAFT, scheduled_for |-> Null,
     published |-> FALSE]

\* the rows of articles the comments of the store are attached to: both were
\* created, submitted and published by the first user
StoredArticles ==
    [a \in Articles |-> [NewArticle(1) EXCEPT !.status = PUBLISHED, !.published = TRUE]]

\* Article.submit_for_review
SubmittedForReview(row) ==
    IF row.status = DRAFT THEN [row EXCEPT !.status = PENDING_REVIEW] ELSE row

\* Article.publish (published: published_at is set)
Published(row) == [row EXCEPT !.status = PUBLISHED, !.published = TRUE]

\* cancel_schedule's assignments to the row it found
ScheduleCancelled(row) == [row EXCEPT !.scheduled_for = Null, !.status = DRAFT]

\* ArticleService.create: db.add(article); db.commit(); the article is
\* returned (200)
create(p, author_id) ==
    /\ pc[p] = "idle"
    /\ articles' = Append(articles, NewArticle(author_id))
    /\ Finish(p, HTTP_OK)
    /\ UNCHANGED <<commentVars, reactionVars, rateVars, cache_enabled>>

\* ArticleService.submit_for_review: the row of that id, author and status
\* DRAFT is submitted and returned (200); None when there is none (404)
submit_for_review(p, article_id, author_id) ==
    /\ pc[p] = "idle"
    /\ IF /\ article_id \in ArticleIds
          /\ articles[article_id].author_id = author_id
          /\ articles[article_id].status = DRAFT
       THEN /\ articles' = [articles EXCEPT ![article_id] = SubmittedForReview(@)]
            /\ Finish(p, HTTP_OK)
       ELSE /\ articles' = articles
            /\ Finish(p, HTTP_NOT_FOUND)
    /\ UNCHANGED <<commentVars, reactionVars, rateVars, cache_enabled>>

\* ArticleService.publish: the row of that id and status PENDING_REVIEW is
\* published and returned (200); None when there is none (404). The service
\* is built with no cache and no search client.
publish(p, article_id) ==
    /\ pc[p] = "idle"
    /\ IF /\ article_id \in ArticleIds
          /\ articles[article_id].status = PENDING_REVIEW
       THEN /\ articles' = [articles EXCEPT ![article_id] = Published(@)]
            /\ Finish(p, HTTP_OK)
       ELSE /\ articles' = articles
            /\ Finish(p, HTTP_NOT_FOUND)
    /\ UNCHANGED <<commentVars, reactionVars, rateVars, cache_enabled>>

\* ArticleService.schedule_publish: the row of that id gets scheduled_for;
\* no job is started (the send_task call is a comment)
schedule_publish(p, article_id, publish_at) ==
    /\ pc[p] = "idle"
    /\ IF article_id \in ArticleIds
       THEN /\ articles' = [articles EXCEPT ![article_id] =
                               [@ EXCEPT !.scheduled_for = publish_at]]
            /\ Finish(p, HTTP_OK)
       ELSE /\ articles' = articles
            /\ Finish(p, HTTP_NOT_FOUND)
    /\ UNCHANGED <<commentVars, reactionVars, rateVars, cache_enabled>>

\* ArticleService.cancel_schedule: the row of that id, whatever its status
cancel_schedule(p, article_id) ==
    /\ pc[p] = "idle"
    /\ IF article_id \in ArticleIds
       THEN /\ articles' = [articles EXCEPT ![article_id] = ScheduleCancelled(@)]
            /\ Finish(p, HTTP_OK)
       ELSE /\ articles' = articles
            /\ Finish(p, HTTP_NOT_FOUND)
    /\ UNCHANGED <<commentVars, reactionVars, rateVars, cache_enabled>>

\* ------------------------------------------------------------ initial state
\* an empty store, configured with or without a cache
InitStore(with_cache) ==
    /\ comments = <<>>
    /\ comment_count = [a \in Articles |-> 0]
    /\ serial_count = [a \in Articles |-> 0]
    /\ reactions = {}
    /\ next_reaction_id = 1
    /\ cache_enabled = with_cache
    /\ articles = StoredArticles
    /\ rate_keys = [u \in Users |-> NoKey]
    /\ rate_window = [u \in Users |-> [passed |-> 0, rejected |-> 0, total_passed |-> 0, hour_over |-> FALSE]]
    /\ reaction_cache = [c \in ReactionTargets |-> NoCacheEntry]
    /\ toggle_log = <<>>
    /\ plain = PlainInit
    /\ pc = [p \in Procs |-> "idle"]
    /\ req = [p \in Procs |-> NoReq]
    /\ response = [p \in Procs |-> NoResponse]

Idle == \A p \in Procs : pc[p] = "idle"

\* ------------------------------------------------ threading specification
\* Requests of the comment handlers, interleaved at their steps, on a store
\* with no cache. Creates reply to any stored comment, to the id the next
\* row will get, or to nothing; the other requests target the first rows.
ThreadProcs == {1}
ThreadTargets == {1}

ThreadCreate(p) ==
    /\ Len(comments) + Cardinality({q \in Procs : pc[q] \in {"cc_depth", "cc_insert"}})
          < MaxThreadComments
    /\ \E parent_id \in 0..(Len(comments) + 1) :
          create_comment_check_rate_limit(p, 1, 1, parent_id, "text")

NextThread ==
    \E p \in ThreadProcs :
        \/ ThreadCreate(p)
        \/ create_comment_check_depth(p)
        \/ create_commit(p)
        \/ create_update_comment_count(p)
        \/ \E c \in ThreadTargets : delete_commit(p, c, 1)
        \/ delete_update_comment_count(p)
        \/ \E c \in ThreadTargets : update_read(p, c, 1, "edited")
        \/ update_commit(p)
        \/ \E c \in ThreadTargets : flag_comment(p, c, 2, "spam")
        \/ \E c \in ThreadTargets, a \in ModerationActions : moderate_commit(p, c, 2, a)
        \/ moderate_stamp(p)

SpecThread == InitStore(FALSE) /\ [][NextThread]_vars


\* ------------------------------------------------- reaction specifications
\* a store in which two top-level comments were created on article 1
InitWithComments(with_cache) ==
    /\ comments = <<NewComment("text", 1, 1, Null), NewComment("text", 1, 2, Null)>>
    /\ comment_count = [a \in Articles |-> IF a = 1 THEN 2 ELSE 0]
    /\ serial_count = [a \in Articles |-> IF a = 1 THEN 2 ELSE 0]
    /\ reactions = {}
    /\ next_reaction_id = 1
    /\ cache_enabled = with_cache
    /\ articles = StoredArticles
    /\ rate_keys = [u \in Users |-> NoKey]
    /\ rate_window = [u \in Users |-> [passed |-> 0, rejected |-> 0, total_passed |-> 0, hour_over |-> FALSE]]
    /\ reaction_cache = [c \in ReactionTargets |-> NoCacheEntry]
    /\ toggle_log = <<>>
    /\ plain = PlainInit
    /\ pc = [p \in Procs |-> "idle"]
    /\ req = [p \in Procs |-> NoReq]
    /\ response = [p \in Procs |-> NoResponse]

\* rows inserted so far and the requests in flight that may still insert one
ReactionRowsClaimed ==
    (next_reaction_id - 1)
        + Cardinality({q \in Procs : pc[q] = "tr_commit" /\ req[q].existing = 0})

\* a toggle that finds no row will insert one: it starts only below the bound
MayToggle(comment_id, user_id, bound) ==
    ExistingReactions(comment_id, user_id) # {} \/ ReactionRowsClaimed < bound

\* Reaction requests executed one at a time, with or without a cache.
ReactKinds == {"like", "love"}

ReactSteps(p) ==
    \/ toggle_commit(p)
    \/ toggle_invalidate(p)
    \/ counts_cache_get(p)
    \/ counts_query(p)
    \/ counts_cache_set(p)

NextReact ==
    \/ \E p \in {1} :
        \/ \E c \in ReactionTargets, u \in Users, k \in ReactKinds :
              MayToggle(c, u, MaxReactionRows) /\ toggle_read(p, c, u, k)
        \/ ReactSteps(p)
    \/ \E c \in ReactionTargets : reaction_cache_expires(c)

SpecReact == (\E with_cache \in BOOLEAN : InitWithComments(with_cache)) /\ [][NextReact]_vars

\* Reaction requests and reads of the counts, one at a time, with or without
\* a cache; a cached mapping may expire at any moment. Both users react on
\* the first comment, the first user on the other ids.
ReadUsers(comment_id) == IF comment_id = 1 THEN Users ELSE {1}

NextReactRead ==
    \/ \E p \in {1} :
        \/ \E c \in ReactionTargets : \E u \in ReadUsers(c), k \in ReactKinds :
              MayToggle(c, u, MaxReadReactionRows) /\ toggle_read(p, c, u, k)
        \/ \E c \in ReactionTargets : get_reactions(p, c)
        \/ ReactSteps(p)
    \/ \E c \in ReactionTargets : reaction_cache_expires(c)

SpecReactRead ==
    (\E with_cache \in BOOLEAN : InitWithComments(with_cache)) /\ [][NextReactRead]_vars

\* Reaction requests of one user on one comment, interleaved at their steps.
ConcKinds == {"like", "love"}

NextReactConc ==
    \/ \E p \in Procs :
        \/ \E k \in ConcKinds :
              MayToggle(1, 1, MaxConcReactionRows) /\ toggle_read(p, 1, 1, k)
        \/ ReactSteps(p)
    \/ reaction_cache_expires(1)

SpecReactConc == InitWithComments(TRUE) /\ [][NextReactConc]_vars


\* ------------------------------------------------ moderation specification
\* Flags, moderation actions of either user as moderator, author deletes and
\* edits, one request at a time, on the two stored comments and an id that
\* names none.
ModerationTargets == {1, 2, 3}

NextModerate ==
    \E p \in {1} :
        \/ \E c \in ModerationTargets, u \in Users : flag_comment(p, c, u, "spam")
        \/ \E c \in ModerationTargets, m \in Users, a \in ModerationActions :
              moderate_commit(p, c, m, a)
        \/ moderate_stamp(p)
        \/ \E c \in ModerationTargets, u \in Users : delete_commit(p, c, u)
        \/ delete_update_comment_count(p)
        \/ \E c \in ModerationTargets, u \in Users : update_read(p, c, u, "edited")
        \/ update_commit(p)

SpecModerate == InitWithComments(FALSE) /\ [][NextModerate]_vars

\* ---------------------------------------- moderator-delete specification
\* a store in which a top-level comment and a reply to it were created on
\* article 1
InitWithThread ==
    /\ comments = <<NewComment("text", 1, 1, Null), NewComment("text", 1, 2, 1)>>
    /\ comment_count = [a \in Articles |-> IF a = 1 THEN 2 ELSE 0]
    /\ serial_count = [a \in Articles |-> IF a = 1 THEN 2 ELSE 0]
    /\ reactions = {}
    /\ next_reaction_id = 1
    /\ cache_enabled = FALSE
    /\ articles = StoredArticles
    /\ rate_keys = [u \in Users |-> NoKey]
    /\ rate_window = [u \in Users |-> [passed |-> 0, rejected |-> 0, total_passed |-> 0, hour_over |-> FALSE]]
    /\ reaction_cache = [c \in ReactionTargets |-> NoCacheEntry]
    /\ toggle_log = <<>>
    /\ plain = PlainInit
    /\ pc = [p \in Procs |-> "idle"]
    /\ req = [p \in Procs |-> NoReq]
    /\ response = [p \in Procs |-> NoResponse]

\* Flags, moderation actions and author deletes on the comment and on its
\* reply, one request at a time.
NextModDelete ==
    \E p \in {1} :
        \/ \E c \in CommentIds, u \in Users : flag_comment(p, c, u, "spam")
        \/ \E c \in CommentIds, a \in ModerationActions : moderate_commit(p, c, 2, a)
        \/ moderate_stamp(p)
        \/ \E c \in CommentIds, u \in Users : delete_commit(p, c, u)
        \/ delete_update_comment_count(p)

SpecModDelete == InitWithThread /\ [][NextModDelete]_vars

\* ------------------------------------------------------ flag specification
\* Flags by either user with either reason, moderation actions, author
\* deletes and reads of the moderation queue, one request at a time, on the
\* comment, on its reply and on an id that names none.
FlagReasons == {"spam", "abuse"}
FlagTargets == {1, 2, 3}

NextFlag ==
    \E p \in {1} :
        \/ \E c \in FlagTargets, u \in Users, reason \in FlagReasons :
              flag_comment(p, c, u, reason)
        \/ \E c \in CommentIds, a \in ModerationActions : moderate_commit(p, c, 2, a)
        \/ moderate_stamp(p)
        \/ \E c \in CommentIds, u \in Users : delete_commit(p, c, u)
        \/ delete_update_comment_count(p)
        \/ read_moderation_queue(p)

SpecFlag == InitWithThread /\ [][NextFlag]_vars

\* --------------------------------------------------- article specification
\* a store with no article yet
InitArticles ==
    /\ comments = <<>>
    /\ comment_count = [a \in Articles |-> 0]
    /\ serial_count = [a \in Articles |-> 0]
    /\ reactions = {}
    /\ next_reaction_id = 1
    /\ cache_enabled = FALSE
    /\ articles = <<>>
    /\ rate_keys = [u \in Users |-> NoKey]
    /\ rate_window = [u \in Users |-> [passed |-> 0, rejected |-> 0, total_passed |-> 0, hour_over |-> FALSE]]
    /\ reaction_cache = [c \in ReactionTargets |-> NoCacheEntry]
    /\ toggle_log = <<>>
    /\ plain = PlainInit
    /\ pc = [p \in Procs |-> "idle"]
    /\ req = [p \in Procs |-> NoReq]
    /\ response = [p \in Procs |-> NoResponse]

\* Calls of the article service by either user, one at a time, on the
\* articles created so far and on the id after them.
NextArticle ==
    \E p \in {1} :
        \/ \E u \in Users : Len(articles) < MaxArticles /\ create(p, u)
        \/ \E a \in 1..(Len(articles) + 1), u \in Users : submit_for_review(p, a, u)
        \/ \E a \in 1..(Len(articles) + 1) : publish(p, a)
        \/ \E a \in 1..(Len(articles) + 1), t \in PublishTimes : schedule_publish(p, a, t)
        \/ \E a \in 1..(Len(articles) + 1) : cancel_schedule(p, a)

SpecArticle == InitArticles /\ [][NextArticle]_vars

\* ------------------------------------------------------ edit specification
\* Edits and author deletes by either user on the two stored comments and an
\* id that names none, the requests interleaved at their store operations.
EditTargets == {1, 2, 3}

NextEdit ==
    \E p \in Procs :
        \/ \E c \in EditTargets, u \in Users : update_read(p, c, u, "edited")
        \/ update_commit(p)
        \/ \E c \in EditTargets, u \in Users : delete_commit(p, c, u)
        \/ delete_update_comment_count(p)

SpecEdit == InitWithComments(FALSE) /\ [][NextEdit]_vars

\* ---------------------------------------------------- create specification
\* Create requests of one user, one at a time, on a store with no cache: on
\* an article or on an id that names none, with text or with empty content,
\* as a top-level comment or as a reply to a stored comment, to the id the
\* next row will get or to an id after it.
CreateContents == {"text", ""}

NextCreate ==
    \E p \in {1} :
        \/ /\ Len(comments) < MaxCreateComments
           /\ \E a \in ArticleInputs, parent_id \in 0..(Len(comments) + 2),
                 content \in CreateContents :
                 create_comment_check_rate_limit(p, 1, a, parent_id, content)
        \/ create_comment_check_depth(p)
        \/ create_commit(p)
        \/ create_update_comment_count(p)

SpecCreate == InitStore(FALSE) /\ [][NextCreate]_vars

\* ------------------------------------------------------- API specification
\* Requests to the handlers with well-formed and malformed input, one at a
\* time, on a store with no cache: creates with text or with empty content,
\* reactions of a recognized kind or of another, flags, and requests to the
\* moderation endpoints by the reader and by the editor, with a recognized
\* action or another, on a stored comment or on an id that names none.
ApiKinds == {"like", "meh"}
ApiActions == ModerationActions \cup {"ban"}
ApiTargets == {1, 3}

NextApi ==
    \E p \in {1} :
        \/ /\ Len(comments) < MaxApiComments
           /\ \E content \in CreateContents :
                 create_comment_check_rate_limit(p, 1, 1, Null, content)
        \/ create_comment_check_depth(p)
        \/ create_commit(p)
        \/ create_update_comment_count(p)
        \/ \E k \in ApiKinds :
              MayToggle(1, 1, MaxApiReactionRows) /\ toggle_read(p, 1, 1, k)
        \/ toggle_commit(p)
        \/ counts_query(p)
        \/ \E c \in ApiTargets : flag_comment(p, c, 1, "spam")
        \/ \E c \in ApiTargets, m \in Users, a \in ApiActions : moderate_comment(p, c, m, a)
        \/ \E m \in Users : moderation_queue(p, m)

SpecApi == InitWithComments(FALSE) /\ [][NextApi]_vars

\* ----------------------------------------------- store-failure specification
\* Creates on the two articles, author deletes and moderator deletes of
\* comments that are not deleted, one request at a time, on a store with no
\* cache; any statement or commit of a request may fail.
NextStoreFault ==
    \E p \in {1} :
        \/ /\ Len(comments) < MaxFaultComments
           /\ \E a \in Articles : create_comment_check_rate_limit(p, 1, a, Null, "text")
        \/ create_comment_check_depth(p)
        \/ create_commit(p)
        \/ create_update_comment_count(p)
        \/ \E c \in CommentIds : ~comments[c].is_deleted /\ delete_commit(p, c, 1)
        \/ delete_update_comment_count(p)
        \/ \E c \in CommentIds :
              ~comments[c].is_deleted /\ moderate_commit(p, c, 2, "delete")
        \/ moderate_stamp(p)
        \/ request_fails(p)
        \/ create_commit_fails(p)
        \/ create_count_fails(p)
        \/ delete_count_fails(p)
        \/ moderate_stamp_fails(p)

SpecStoreFault == InitStore(FALSE) /\ [][NextStoreFault]_vars

\* --------------------------------------------------- listing specification
\* Creates of comments and replies on the two articles, author deletes,
\* moderation actions and listings, one request at a time, on a store with
\* no cache.
ListPages == {1, 2}
\* per_page: 1, 2 and the handler's default
ListPerPage == {1, 2, 50}

NextListing ==
    \E p \in {1} :
        \/ /\ Len(comments) < MaxListComments
           /\ \E a \in Articles, parent_id \in 0..Len(comments) :
                 create_comment_check_rate_limit(p, 1, a, parent_id, "text")
        \/ create_comment_check_depth(p)
        \/ create_commit(p)
        \/ create_update_comment_count(p)
        \/ \E c \in CommentIds : delete_commit(p, c, 1)
        \/ delete_update_comment_count(p)
        \/ \E c \in CommentIds, a \in ModerationActions : moderate_commit(p, c, 2, a)
        \/ moderate_stamp(p)
        \/ \E a \in ArticleInputs, page \in ListPages, per_page \in ListPerPage :
              list_article_comments(p, a, page, per_page)

SpecListing == InitStore(FALSE) /\ [][NextListing]_vars

\* ---------------------------------------------- comment-count specification
\* Creates, author deletes and moderator deletes on the two articles,
\* interleaved at their steps, on a store with no cache.
CommentsClaimed ==
    Len(comments) + Cardinality({q \in Procs : pc[q] \in {"cc_depth", "cc_insert"}})

NextCount ==
    \E p \in Procs :
        \/ /\ CommentsClaimed < MaxCountComments
           /\ \E a \in ArticleInputs : create_comment_check_rate_limit(p, 1, a, Null, "text")
        \/ create_comment_check_depth(p)
        \/ create_commit(p)
        \/ create_update_comment_count(p)
        \/ \E c \in 1..MaxCountComments : delete_commit(p, c, 1)
        \/ delete_update_comment_count(p)
        \/ \E c \in 1..MaxCountComments : moderate_commit(p, c, 2, "delete")
        \/ moderate_stamp(p)

SpecCount == InitStore(FALSE) /\ [][NextCount]_vars

\* ------------------------------------------------ rate-limit specification
\* Create requests of the two users, one at a time, on a store with a cache;
\* a counter whose expiry is set may expire at any moment.
NextRate ==
    \/ \E p \in {1} :
        \/ /\ Len(comments) < MaxRateComments
           /\ \E u \in Users :
                /\ rate_keys[u].count < MaxRateCount
                /\ create_comment_check_rate_limit(p, u, 1, Null, "text")
        \/ create_comment_rate_expire(p)
        \/ create_comment_check_depth(p)
        \/ create_commit(p)
        \/ create_update_comment_count(p)
    \/ \E u \in Users : rate_key_expires(u)

SpecRate == InitStore(TRUE) /\ [][NextRate]_vars

\* Create requests of the two users, one at a time, on a store with a cache:
\* top-level comments and, by the first user, replies to the newest comment,
\* which the depth limit rejects once that comment is at depth 3; counters
\* expire.
SlotParents(user_id) == IF user_id = 1 THEN {Null, Len(comments)} ELSE {Null}

WritesNoComment(user_id, parent_id) ==
    \/ ~RateLimitAllows(CacheIncr(rate_keys[user_id]))
    \/ parent_id # Null /\ DepthLimitReached(get_comment_depth(parent_id))

NextRateDepth ==
    \/ \E p \in {1} :
        \/ \E u \in Users : \E parent_id \in SlotParents(u) :
              /\ Len(comments) < MaxSlotComments \/ WritesNoComment(u, parent_id)
              /\ rate_keys[u].count < MaxRateCount
              /\ rate_window[u].total_passed < MaxSlotPassed
              /\ create_comment_check_rate_limit(p, u, 1, parent_id, "text")
        \/ create_comment_rate_expire(p)
        \/ create_comment_check_depth(p)
        \/ create_commit(p)
        \/ create_update_comment_count(p)
    \/ \E u \in Users : rate_key_expires(u)

SpecRateDepth == InitStore(TRUE) /\ [][NextRateDepth]_vars

\* Create requests of one user, interleaved at their steps, on a store with
\* a cache; a counter whose expiry is set may expire at any moment.
NextRateConc ==
    \/ \E p \in Procs :
        \/ /\ CommentsClaimed < MaxConcRateComments
           /\ rate_keys[1].count < MaxConcRateCount
           /\ create_comment_check_rate_limit(p, 1, 1, Null, "text")
        \/ create_comment_rate_expire(p)
        \/ create_comment_check_depth(p)
        \/ create_commit(p)
        \/ create_update_comment_count(p)
    \/ rate_key_expires(1)

SpecRateConc == InitStore(TRUE) /\ [][NextRateConc]_vars

\* Create requests of one user, one at a time, on a store with or without a
\* cache; an operation of the cache may fail, a rate check may be interrupted
\* before it sets the expiry, and hours pass.
NextRateFault ==
    \/ \E p \in {1} :
        \/ /\ Len(comments) < MaxRateComments
           /\ \E u \in {1} :
                /\ rate_keys[u].count < MaxRateCount
                /\ create_comment_check_rate_limit(p, u, 1, Null, "text")
        \/ create_comment_incr_fails(p, 1, 1, Null, "text")
        \/ create_comment_rate_expire(p)
        \/ create_comment_interrupted(p)
        \/ create_comment_raises(p)
        \/ create_comment_check_depth(p)
        \/ create_commit(p)
        \/ create_update_comment_count(p)
    \/ \E u \in {1} : window_hour_passes(u)

SpecRateFault == (\E with_cache \in BOOLEAN : InitStore(with_cache)) /\ [][NextRateFault]_vars


\* ================================================================== claims
\* vocabulary of the claims

\* hops from row id of table to a top-level row (parent_id NULL) along the
\* parent references; -1 when the chain leaves the table or does not end
\* within fuel hops
RECURSIVE HopsToRoot(_, _, _)
HopsToRoot(table, id, fuel) ==
    IF id \notin 1..Len(table) THEN -1
    ELSE IF table[id].parent_id = Null THEN 0
    ELSE IF fuel = 0 THEN -1
    ELSE LET h == HopsToRoot(table, table[id].parent_id, fuel - 1)
         IN  IF h = -1 THEN -1 ELSE h + 1

\* depth of a stored comment, -1 when its chain reaches no top-level comment
DepthOf(table, id) == HopsToRoot(table, id, Len(table))

RowsOfPair(rows, comment_id, user_id) ==
    {r \in rows : r.comment_id = comment_id /\ r.user_id = user_id}

NonDeleted(article_id) ==
    {c \in CommentIds : comments[c].article_id = article_id /\ ~comments[c].is_deleted}

\* ---- threading (SpecThread)

\* C1: in every reachable state the parent chain of every stored comment
\* reaches a top-level comment in at most 3 hops (so it is not cyclic and
\* get_comment_depth terminates on it).
C1_ParentChainWithin3Hops ==
    \A c \in CommentIds : HopsToRoot(comments, c, 3) \in 0..3

ContentAndFlags(row) ==
    <<row.content, row.is_deleted, row.is_approved, row.is_flagged, row.flagged_reason>>

\* C16: an author delete or a moderator delete of a comment that is already
\* deleted reports success and leaves the comment's content and flags and
\* the article's comment count as they were.
C16_DeleteIdempotent ==
    [][\A p \in Procs :
         /\ (pc[p] = "idle" /\ pc'[p] \in {"del_count", "mod_stamp"}
                /\ comments[req'[p].comment_id].is_deleted) =>
               /\ ContentAndFlags(comments'[req'[p].comment_id])
                     = ContentAndFlags(comments[req'[p].comment_id])
               /\ comment_count' = comment_count
         /\ (pc[p] = "del_count" /\ pc'[p] = "idle" /\ req[p].was_deleted) =>
               /\ comments' = comments
               /\ comment_count' = comment_count
               /\ response'[p].status = HTTP_OK
         /\ (pc[p] = "mod_stamp" /\ pc'[p] = "idle") =>
               /\ ContentAndFlags(comments'[req[p].comment_id])
                     = ContentAndFlags(comments[req[p].comment_id])
               /\ comment_count' = comment_count
               /\ response'[p].status = HTTP_OK
      ]_vars

\* replies of a comment: the rows whose parent reference names it
RepliesOf(table, comment_id) ==
    {c \in 1..Len(table) : table[c].parent_id = comment_id /\ c # comment_id}

\* C18: delete(comment_id, author_id) by the comment's author sets is_deleted
\* and replaces the content with the tombstone in its first commit, which
\* changes nothing else: the comment keeps its place, parent_id, article_id
\* and author, no row is removed, every other comment, its replies among
\* them, and the count stay as they are; its second commit lowers the count
\* of the comment's article by 1, floored at 0, and changes no comment.
C18_DeleteFrame ==
    [][\A p \in Procs :
         /\ (pc[p] = "idle" /\ pc'[p] = "del_count") =>
               LET c == req'[p].comment_id
               IN  /\ c \in CommentIds
                   /\ comments[c].author_id = req'[p].author_id
                   /\ Len(comments') = Len(comments)
                   /\ comments'[c].is_deleted
                   /\ comments'[c].content = "[Comment removed]"
                   /\ comments'[c].parent_id = comments[c].parent_id
                   /\ comments'[c].article_id = comments[c].article_id
                   /\ comments'[c].author_id = comments[c].author_id
                   /\ \A d \in CommentIds \ {c} : comments'[d] = comments[d]
                   /\ RepliesOf(comments', c) = RepliesOf(comments, c)
                   /\ comment_count' = comment_count
         /\ (pc[p] = "del_count" /\ pc'[p] = "idle") =>
               LET a == comments[req[p].comment_id].article_id
               IN  /\ comments' = comments
                   /\ response'[p].status = HTTP_OK
                   /\ \A b \in Articles :
                         comment_count'[b] =
                            IF b = a
                            THEN (IF comment_count[b] >= 1 THEN comment_count[b] - 1 ELSE 0)
                            ELSE comment_count[b]
      ]_vars

\* C18 happens: a comment deleted by its author has a reply that still has
\* its text, and the count of two comments went down to one
C18_Witness ==
    /\ Idle
    /\ \E c \in CommentIds :
          /\ comments[c].is_deleted /\ comments[c].content = "[Comment removed]"
          /\ \E d \in RepliesOf(comments, c) :
                ~comments[d].is_deleted /\ comments[d].content = "text"
    /\ Len(comments) = 2
    /\ comment_count[1] = 1
    /\ \E p \in Procs : response[p].status = HTTP_OK

\* ---- listing (SpecListing)

\* the ids of a listing
ListedIds(listing) == {listing[i] : i \in 1..Len(listing)}

\* C19: get_article_comments(article_id, page, per_page) returns exactly the
\* approved, non-deleted top-level comments of the article, newest first,
\* restricted to the page.
C19_ListingIsApprovedNonDeleted ==
    [][\A p \in Procs, a \in ArticleInputs, page \in ListPages, per_page \in ListPerPage :
         list_article_comments(p, a, page, per_page) =>
            response'[p].listing =
               PageOf(NewestFirst({c \in CommentIds :
                                      /\ comments[c].article_id = a
                                      /\ comments[c].parent_id = Null
                                      /\ comments[c].is_approved
                                      /\ ~comments[c].is_deleted}),
                      page, per_page)
      ]_vars

\* C20: a listing of an article (its first page, of the default size) shows
\* every comment of the article that its author deleted, with the tombstone
\* text, and the replies that comment has.
C20_DeletedAndRepliesListed ==
    [][\A p \in Procs, a \in Articles :
         list_article_comments(p, a, 1, 50) =>
            \A c \in CommentIds :
               (/\ comments[c].article_id = a
                /\ comments[c].is_deleted
                /\ comments[c].content = "[Comment removed]") =>
                  /\ c \in ListedIds(response'[p].listing)
                  /\ RepliesOf(comments, c) \subseteq ListedIds(response'[p].listing)
      ]_vars

\* the row reached from row id by hops parent references (Null: none)
RECURSIVE AncestorAt(_, _, _)
AncestorAt(table, id, hops) ==
    IF hops = 0 THEN id
    ELSE IF id \notin 1..Len(table) THEN Null
    ELSE AncestorAt(table, table[id].parent_id, hops - 1)

\* the rows below a comment, down to max_hops levels
DescendantsWithin(table, comment_id, max_hops) ==
    {c \in 1..Len(table) : \E h \in 1..max_hops : AncestorAt(table, c, h) = comment_id}

\* C21: a listing (first page, default size) holds, with every top-level
\* comment it lists, every approved, non-deleted comment below it down to
\* three levels, exactly once, and the listing writes nothing.
C21_ListingHoldsDescendants ==
    [][\A p \in Procs, a \in Articles :
         list_article_comments(p, a, 1, 50) =>
            LET listing == response'[p].listing
            IN  /\ comments' = comments /\ comment_count' = comment_count
                /\ \A i, j \in 1..Len(listing) : listing[i] = listing[j] => i = j
                /\ \A t \in ListedIds(listing) :
                      \A d \in DescendantsWithin(comments, t, 3) :
                         (comments[d].is_approved /\ ~comments[d].is_deleted) =>
                            d \in ListedIds(listing)
      ]_vars

\* ---- edits and deletes (SpecEdit)

\* C22: update(comment_id, author_id, content) goes on to its write exactly
\* when the comment exists, the caller is its author and it is not deleted,
\* and is answered 404 with nothing changed otherwise; its write changes the
\* content of that comment and nothing else (approval, flag, reason,
\* deletion, parent, article, author, the other comments and the counts stay),
\* and the comment it writes to is not a deleted one: no tombstone is
\* overwritten.
C22_EditFrame ==
    [][\A p \in Procs :
         /\ \A c \in EditTargets, u \in Users :
               update_read(p, c, u, "edited") =>
                  /\ (pc'[p] = "upd_commit") <=>
                        (/\ c \in CommentIds
                         /\ comments[c].author_id = u
                         /\ ~comments[c].is_deleted)
                  /\ (pc'[p] # "upd_commit") => response'[p].status = HTTP_NOT_FOUND
                  /\ comments' = comments
                  /\ comment_count' = comment_count
         /\ (pc[p] = "upd_commit" /\ pc'[p] = "idle") =>
               LET c == req[p].comment_id
               IN  /\ response'[p].status = HTTP_OK
                   /\ comments' = [comments EXCEPT ![c] = [@ EXCEPT !.content = req[p].content]]
                   /\ comment_count' = comment_count
                   /\ ~comments[c].is_deleted
                   /\ comments[c].content # "[Comment removed]"
      ]_vars

\* C23: an edit or an author delete of a stored comment by a user who is not
\* its author changes no comment and no count and is answered with a status
\* that is neither success nor the 404 given for an id that names no comment.
C23_NotYoursIsNotNotFound ==
    [][\A p \in Procs, c \in EditTargets, u \in Users :
         ((update_read(p, c, u, "edited") \/ delete_commit(p, c, u))
             /\ c \in CommentIds /\ comments[c].author_id # u) =>
            /\ comments' = comments
            /\ comment_count' = comment_count
            /\ pc'[p] = "idle"
            /\ response'[p].status \notin {HTTP_OK, HTTP_NOT_FOUND}
      ]_vars

\* ---- creates (SpecCreate)

\* the article or the parent a create request names is missing
NamesMissingRow(r) ==
    \/ r.article_id \notin Articles
    \/ r.parent_id # Null /\ r.parent_id \notin CommentIds

\* C24: a create request whose article_id names no article, or whose
\* parent_id names no stored comment, adds no comment row, changes no comment
\* count and is answered 404.
C24_MissingArticleOrParentIs404 ==
    [][\A p \in Procs :
         (req[p].op = "create" /\ NamesMissingRow(req[p])) =>
            /\ comments' = comments
            /\ comment_count' = comment_count
            /\ pc'[p] = "idle" => response'[p].status = HTTP_NOT_FOUND
      ]_vars

NonDeletedIn(table, article_id) ==
    {c \in 1..Len(table) : table[c].article_id = article_id /\ ~table[c].is_deleted}

\* C27: a create, an author delete or a moderator delete that fails leaves
\* the row change and the count adjustment both applied or both not applied:
\* with requests run one at a time and no comment deleted twice, each
\* article's count is the number of its non-deleted comments when a failed
\* request has returned.
C27_FailureLeavesNoPartialState ==
    [][\A p \in Procs :
         (pc'[p] = "idle" /\ response'[p].status = HTTP_ERROR) =>
            \A a \in Articles :
               comment_count'[a] = Cardinality(NonDeletedIn(comments', a))
      ]_vars

\* ---- handlers and their input (SpecApi)

\* nothing stored changes in a step
StoreUnchanged ==
    /\ comments' = comments
    /\ comment_count' = comment_count
    /\ reactions' = reactions

\* C25: a create request with empty content, a reaction request with a kind
\* that is none of the five, and a moderation request with an action that is
\* none of approve, reject and delete are each answered 400 at once, and no
\* comment, reaction, count or moderator stamp changes.
C25_MalformedInputRejected ==
    [][\A p \in Procs :
         /\ create_comment_check_rate_limit(p, 1, 1, Null, "") =>
               (StoreUnchanged /\ pc'[p] = "idle"
                   /\ response'[p].status = HTTP_BAD_REQUEST)
         /\ (req[p].op = "create" /\ req[p].content = "") => StoreUnchanged
         /\ \A k \in ApiKinds \ {"like", "love", "angry", "sad", "wow"} :
               toggle_read(p, 1, 1, k) =>
                  (StoreUnchanged /\ pc'[p] = "idle"
                      /\ response'[p].status = HTTP_BAD_REQUEST)
         /\ \A c \in ApiTargets, m \in Users :
               \A a \in ApiActions \ {"approve", "reject", "delete"} :
                  moderate_comment(p, c, m, a) =>
                     (StoreUnchanged /\ pc'[p] = "idle"
                         /\ response'[p].status = HTTP_BAD_REQUEST)
      ]_vars

\* C28: a request to moderate a comment or to read the moderation queue by a
\* user whose role is neither editor nor admin is answered 403 and changes
\* no comment and no count.
C28_ModerationNeedsEditorOrAdmin ==
    [][\A p \in Procs, m \in Users :
         RoleOf[m] \notin {"editor", "admin"} =>
            /\ \A c \in ApiTargets, a \in ApiActions :
                  moderate_comment(p, c, m, a) =>
                     (StoreUnchanged /\ pc'[p] = "idle"
                         /\ response'[p].status = HTTP_FORBIDDEN)
            /\ moderation_queue(p, m) =>
                  (StoreUnchanged /\ response'[p].status = HTTP_FORBIDDEN)
      ]_vars

\* ---- moderation (SpecModerate)

C29_ApproveRejectAndStamp ==
    [][\A p \in Procs :
         /\ \A c \in CommentIds, m \in Users :
               /\ moderate_commit(p, c, m, "approve") =>
                     /\ ~comments'[c].is_flagged
                     /\ comments'[c].is_approved
                     /\ comments'[c].moderated_by = m
                     /\ response'[p].status = HTTP_OK
               /\ moderate_commit(p, c, m, "reject") =>
                     /\ ~comments'[c].is_approved
                     /\ comments'[c].content = comments[c].content
                     /\ comments'[c].is_deleted = comments[c].is_deleted
                     /\ comment_count' = comment_count
                     /\ comments'[c].moderated_by = m
                     /\ response'[p].status = HTTP_OK
                     /\ \A page \in ListPages, per_page \in ListPerPage :
                           c \notin ListedIds(
                              get_article_comments(comments[c].article_id, page, per_page)')
         /\ (pc[p] = "mod_stamp" /\ pc'[p] = "idle") =>
               /\ comments'[req[p].comment_id].moderated_by = req[p].author_id
               /\ comments'[req[p].comment_id].is_deleted
               /\ response'[p].status = HTTP_OK
      ]_vars

\* C29 happens: one comment was rejected and is stored with its text, not
\* deleted, stamped and in no listing, the other was flagged and then
\* approved, and the count is still 2
C29_Witness ==
    /\ Idle
    /\ \E c \in CommentIds :
          /\ ~comments[c].is_approved /\ ~comments[c].is_deleted
          /\ comments[c].content = "text"
          /\ comments[c].moderated_by # Null
          /\ c \notin ListedIds(get_article_comments(comments[c].article_id, 1, 50))
          /\ \E d \in CommentIds \ {c} :
                /\ comments[d].is_approved /\ ~comments[d].is_flagged
                /\ comments[d].flagged_reason = "spam"
                /\ comments[d].moderated_by # Null
                /\ d \in ListedIds(get_article_comments(comments[d].article_id, 1, 50))
    /\ comment_count[1] = 2
    /\ \E p \in Procs : response[p].status = HTTP_OK

\* C31: once a comment is deleted, no step (of an edit, a delete, a flag or
\* a moderation action) changes its approval, its flag, its flag reason, its
\* deletion mark or its content.
C31_DeletedIsTerminal ==
    [][\A c \in CommentIds :
         comments[c].is_deleted =>
            ContentAndFlags(comments'[c]) = ContentAndFlags(comments[c])
      ]_vars

\* C32: a flag request or a moderation request that names an id under which
\* no comment is stored is answered 404 and changes no comment and no count.
C32_MissingCommentIs404 ==
    [][\A p \in Procs, c \in ModerationTargets \ CommentIds, u \in Users :
         /\ flag_comment(p, c, u, "spam") =>
               /\ comments' = comments /\ comment_count' = comment_count
               /\ response'[p].status = HTTP_NOT_FOUND
         /\ \A a \in ModerationActions :
               moderate_commit(p, c, u, a) =>
                  /\ comments' = comments /\ comment_count' = comment_count
                  /\ response'[p].status = HTTP_NOT_FOUND
      ]_vars

\* ---- flags and the moderation queue (SpecFlag)

\* C33: flag_comment(comment_id, reporter_id, reason) on a stored comment,
\* by its author or by another user, leaves it flagged with that reason,
\* also when it was flagged before with another reason, keeps its approval,
\* its deletion mark and its content, changes no other comment and no count
\* and is answered with success.
C33_FlagFrame ==
    [][\A p \in Procs, c \in CommentIds, u \in Users, reason \in FlagReasons :
         flag_comment(p, c, u, reason) =>
            /\ comments'[c].is_flagged
            /\ comments'[c].flagged_reason = reason
            /\ comments'[c].is_approved = comments[c].is_approved
            /\ comments'[c].is_deleted = comments[c].is_deleted
            /\ comments'[c].content = comments[c].content
            /\ \A d \in CommentIds \ {c} : comments'[d] = comments[d]
            /\ Len(comments') = Len(comments)
            /\ comment_count' = comment_count
            /\ response'[p].status = HTTP_OK
      ]_vars

\* C33 happens: both comments are flagged, with different reasons, and have
\* their approval, their text and the count they had
C33_Witness ==
    /\ Idle
    /\ \E c, d \in CommentIds :
          /\ comments[c].is_flagged /\ comments[c].flagged_reason = "abuse"
          /\ comments[d].is_flagged /\ comments[d].flagged_reason = "spam"
          /\ comments[c].is_approved /\ ~comments[c].is_deleted
          /\ comments[c].content = "text"
    /\ comment_count[1] = 2
    /\ \E p \in Procs : response[p].status = HTTP_OK

\* C34: the sequence get_moderation_queue returns holds exactly the stored
\* comments that are flagged and not deleted, each once, an earlier created
\* comment (ids are given in creation order) before a later one.
C34_QueueIsFlaggedNonDeletedOldestFirst ==
    [][\A p \in Procs :
         read_moderation_queue(p) =>
            LET queue == response'[p].listing
            IN  /\ response'[p].status = HTTP_OK
                /\ {queue[i] : i \in 1..Len(queue)} =
                      {c \in CommentIds : comments[c].is_flagged /\ ~comments[c].is_deleted}
                /\ \A i, j \in 1..Len(queue) : i < j => queue[i] < queue[j]
                /\ comments' = comments
      ]_vars

\* C34 happens: the queue was returned with the first comment before its
\* reply
C34_Witness ==
    \E p \in Procs :
        /\ response[p].status = HTTP_OK
        /\ response[p].listing = <<1, 2>>
        /\ comments[1].is_flagged /\ comments[2].is_flagged

\* C35: the first comment of the moderation queue is the one whose
\* unresolved flag was raised first: a flag raised on a comment that was not
\* in the queue, while other comments are, is the latest one and leaves the
\* first comment of the queue the same.
C35_FirstFlaggedFirst ==
    [][\A p \in Procs, c \in CommentIds, u \in Users, reason \in FlagReasons :
         (/\ flag_comment(p, c, u, reason)
          /\ ~comments[c].is_flagged /\ ~comments[c].is_deleted
          /\ get_moderation_queue # <<>>) =>
            Head(get_moderation_queue') = Head(get_moderation_queue)
      ]_vars

\* C38: a moderation action (approve, reject or delete) on a comment of the
\* moderation queue takes it out of the queue, and only a flag puts a
\* comment into the queue.
C38_DecidedLeavesQueue ==
    [][/\ \A p \in Procs, c \in CommentIds, m \in Users, a \in ModerationActions :
             (moderate_commit(p, c, m, a) /\ c \in Flagged) => c \notin Flagged'
       /\ \A c \in CommentIds :
             (c \notin Flagged /\ c \in Flagged') =>
                \E p \in Procs, u \in Users, reason \in FlagReasons :
                   flag_comment(p, c, u, reason)
      ]_vars

\* ---- moderator delete (SpecModDelete)

\* C30: moderate(delete) on a comment that is not deleted, whatever its
\* approval and its flag, marks it deleted, replaces its content with the
\* moderator tombstone and lowers the count of its article by 1, floored at
\* 0, as the author's delete does; it keeps the comment's parent, article and
\* author and changes no other comment, its replies among them, and no other
\* count; the stamp that follows changes no content, no deletion mark and no
\* count, and the call is answered with success.
C30_ModeratorDelete ==
    [][\A p \in Procs :
         /\ \A c \in CommentIds, m \in Users :
               (moderate_commit(p, c, m, "delete") /\ ~comments[c].is_deleted) =>
                  /\ Len(comments') = Len(comments)
                  /\ comments'[c].is_deleted
                  /\ comments'[c].content = "[Removed by moderator]"
                  /\ comments'[c].parent_id = comments[c].parent_id
                  /\ comments'[c].article_id = comments[c].article_id
                  /\ comments'[c].author_id = comments[c].author_id
                  /\ \A d \in CommentIds \ {c} : comments'[d] = comments[d]
                  /\ RepliesOf(comments', c) = RepliesOf(comments, c)
                  /\ \A b \in Articles :
                        comment_count'[b] =
                           IF b = comments[c].article_id
                           THEN (IF comment_count[b] >= 1 THEN comment_count[b] - 1 ELSE 0)
                           ELSE comment_count[b]
         /\ (pc[p] = "mod_stamp" /\ pc'[p] = "idle") =>
               /\ ContentAndFlags(comments'[req[p].comment_id])
                     = ContentAndFlags(comments[req[p].comment_id])
               /\ \A d \in CommentIds \ {req[p].comment_id} : comments'[d] = comments[d]
               /\ comment_count' = comment_count
               /\ response'[p].status = HTTP_OK
      ]_vars

\* C30 happens: a flagged, rejected comment was deleted by the moderator
\* while the count was 0; its reply still has its text and the count is 0
C30_Witness ==
    /\ Idle
    /\ \E c \in CommentIds :
          /\ comments[c].is_deleted /\ comments[c].content = "[Removed by moderator]"
          /\ comments[c].is_flagged /\ ~comments[c].is_approved
          /\ comments[c].moderated_by = 2
          /\ \E d \in RepliesOf(comments, c) :
                ~comments[d].is_deleted /\ comments[d].content = "text"
    /\ comment_count[1] = 0
    /\ \E p \in Procs : response[p].status = HTTP_OK

C6_ReplyToLevel3Rejected ==
    [][\A p \in Procs :
         (pc[p] = "cc_depth" /\ pc'[p] # "cc_depth" /\ req[p].parent_id # Null
             /\ DepthOf(comments, req[p].parent_id) = 2) =>
            response'[p].status = HTTP_BAD_REQUEST
      ]_vars

\* ---- comment count (SpecCount)

\* C2: whenever no request is in progress, each article's stored comment
\* count equals the number of its non-deleted comments.
C2_CountEqualsNonDeleted ==
    Idle => \A a \in Articles : comment_count[a] = Cardinality(NonDeleted(a))

\* C7: the stored count is never negative and always equals the adjustments
\* issued so far applied one after another with a floor at 0: none is lost.
C7_AtomicFlooredCount ==
    \A a \in Articles : comment_count[a] >= 0 /\ comment_count[a] = serial_count[a]

\* C7 happens: on article 1 a delete's -1 was applied at 0 (floored) before
\* the +1 of the create of the same comment, and both requests have returned
C7_Witness ==
    /\ Idle
    /\ comment_count[1] = 1
    /\ NonDeleted(1) = {}
    /\ \E c \in CommentIds : comments[c].article_id = 1

\* ---- reactions, one request at a time (SpecReact)

\* C3: at most one reaction row exists for each (comment, user) pair.
C3_OneRowPerPair ==
    \A c \in ReactionTargets, u \in Users : Cardinality(RowsOfPair(reactions, c, u)) <= 1

\* C3 happens: a toggle changed the kind of a stored row
C3_Witness ==
    /\ toggle_log # <<>>
    /\ toggle_log[Len(toggle_log)].action = "changed"
    /\ RowsOfPair(reactions, toggle_log[Len(toggle_log)].comment_id,
                  toggle_log[Len(toggle_log)].user_id) # {}

\* C9: the commit of toggle_reaction(comment, user, kind) inserts one row of
\* that kind (added) when the user has no row on the comment, deletes the row
\* (removed) when its kind is the same, updates its kind in place (changed)
\* when it differs; the rows of other users and of other comments stay as
\* they are; the action is the one returned.
C9_ToggleCases ==
    [][\A p \in Procs :
         /\ (pc[p] = "tr_commit" /\ pc'[p] \notin {"tr_commit", "idle"}) =>
               LET c == req[p].comment_id
                   u == req[p].author_id
                   k == req[p].reaction_type
                   before == RowsOfPair(reactions, c, u)
                   after == RowsOfPair(reactions', c, u)
               IN  /\ reactions \ before = reactions' \ after
                   /\ before = {} =>
                         /\ req'[p].action = "added"
                         /\ Cardinality(after) = 1
                         /\ \A r \in after : r.reaction_type = k /\ r \notin reactions
                   /\ (before # {} /\ \A r \in before : r.reaction_type = k) =>
                         /\ req'[p].action = "removed"
                         /\ after = {}
                   /\ (before # {} /\ \A r \in before : r.reaction_type # k) =>
                         /\ req'[p].action = "changed"
                         /\ after = {[r EXCEPT !.reaction_type = k] : r \in before}
         /\ (req[p].op = "toggle" /\ pc[p] \in {"rc_get", "rc_query", "rc_set"}
                /\ pc'[p] = "idle") =>
               response'[p].action = req[p].action
      ]_vars

\* C9 happens: a toggle changed a row's kind while another user had a row
C9_Witness ==
    /\ Len(toggle_log) = 2
    /\ toggle_log[2].action = "changed"
    /\ \E r \in reactions : r.user_id # toggle_log[2].user_id
    /\ \E p \in Procs : response[p].action = "changed"

\* the last two committed toggles were the same (comment, user, kind)
SameToggleTwice ==
    /\ Len(toggle_log) = 2
    /\ toggle_log[1].comment_id = toggle_log[2].comment_id
    /\ toggle_log[1].user_id = toggle_log[2].user_id
    /\ toggle_log[1].reaction_type = toggle_log[2].reaction_type

\* C10 as stated: the same kind submitted twice in a row by the same user on
\* the same comment leaves zero rows for that pair.
C10_TwiceLeavesZeroRows ==
    SameToggleTwice =>
        RowsOfPair(reactions, toggle_log[2].comment_id, toggle_log[2].user_id) = {}

\* C10 amended: the same kind K submitted twice in a row leaves zero rows for
\* the pair when the user had no reaction or one of another kind before; with
\* no reaction before, the actions are added then removed and the stored rows
\* are as before the first submission; with a reaction of kind K before, the
\* actions are removed then added and one row of kind K is stored again.
C10_TwiceAmended ==
    SameToggleTwice =>
        LET c == toggle_log[2].comment_id
            u == toggle_log[2].user_id
            k == toggle_log[2].reaction_type
            prior == RowsOfPair(toggle_log[1].before, c, u)
            now == RowsOfPair(reactions, c, u)
        IN  /\ prior = {} =>
                  /\ toggle_log[1].action = "added"
                  /\ toggle_log[2].action = "removed"
                  /\ reactions = toggle_log[1].before
            /\ (prior # {} /\ \A r \in prior : r.reaction_type # k) =>
                  /\ toggle_log[1].action = "changed"
                  /\ toggle_log[2].action = "removed"
                  /\ now = {}
            /\ (prior # {} /\ \A r \in prior : r.reaction_type = k) =>
                  /\ toggle_log[1].action = "removed"
                  /\ toggle_log[2].action = "added"
                  /\ Cardinality(now) = 1
                  /\ \A r \in now : r.reaction_type = k

\* C10 happens: added then removed, by the same user with the same kind
C10_Witness ==
    /\ SameToggleTwice
    /\ toggle_log[1].action = "added"
    /\ toggle_log[2].action = "removed"
    /\ toggle_log[1].before # {}

\* ---- reactions and reads of the counts, one request at a time (SpecReactRead)

\* stored rows of a kind on a comment
RowsOfKind(rows, comment_id, kind) ==
    {r \in rows : r.comment_id = comment_id /\ r.reaction_type = kind}

\* the mapping with count 1 for one kind and 0 for the four others
OnlyOne(kind) == [t \in ReactionTypes |-> IF t = kind THEN 1 ELSE 0]

\* C11: the counts returned by toggle_reaction and by get_reaction_counts
\* have the five kinds as keys and, with requests run one at a time, each
\* kind's count is the number of stored rows of that kind on the comment when
\* the call returns; so a toggle that added the first row of a comment
\* returns 1 for its kind and 0 for the others, and a toggle that removed the
\* only row of a comment returns 0 for every kind.
C11_CountsMatchRows ==
    [][\A p \in Procs :
         (pc[p] \in {"rc_get", "rc_query", "rc_set"} /\ pc'[p] = "idle") =>
            LET c == req[p].comment_id
                counts == response'[p].counts
            IN  /\ response'[p].status = HTTP_OK
                /\ DOMAIN counts = {"like", "love", "angry", "sad", "wow"}
                /\ \A t \in DOMAIN counts :
                      counts[t] = Cardinality(RowsOfKind(reactions', c, t))
                /\ (req[p].op = "toggle" /\ toggle_log # <<>>) =>
                      LET last == toggle_log[Len(toggle_log)]
                          others == {r \in last.before :
                                        r.comment_id = c /\ r.user_id # last.user_id}
                      IN  /\ response'[p].action = last.action
                          /\ (last.action = "added" /\ others = {}) =>
                                counts = OnlyOne(last.reaction_type)
                          /\ (last.action = "removed" /\ others = {}) =>
                                counts = ZeroCounts
      ]_vars

\* C11 happens: on a comment with no other reactions a user's "like" was
\* removed by a second "like" and the user's "love" was then answered with
\* 'added' and love: 1
C11_Witness ==
    /\ Len(toggle_log) = 2
    /\ toggle_log[1].comment_id = toggle_log[2].comment_id
    /\ toggle_log[1].user_id = toggle_log[2].user_id
    /\ toggle_log[1].reaction_type = "like" /\ toggle_log[1].action = "removed"
    /\ toggle_log[2].reaction_type = "love" /\ toggle_log[2].action = "added"
    /\ RowsOfKind(toggle_log[1].before, toggle_log[1].comment_id, "like")
          = {r \in toggle_log[1].before : r.comment_id = toggle_log[1].comment_id}
    /\ \E p \in Procs :
          /\ pc[p] = "idle"
          /\ response[p].action = "added"
          /\ response[p].counts = OnlyOne("love")

\* C12: with requests run one at a time, every reaction call returns from a
\* service with a cache the same status, action and counts as the same call
\* returns from a service with no cache that was given the same calls,
\* whenever cached mappings expire.
C12_CacheIsTransparent ==
    /\ ~plain.stopped
    /\ \A p \in Procs :
          (pc[p] = "idle" /\ response[p].status # 0) => response[p] = plain.response

\* C12 happens: after a toggle, a read of the counts was answered from the
\* cache with a count that is not zero
C12_Witness ==
    /\ cache_enabled
    /\ Idle
    /\ plain.from_cache
    /\ toggle_log # <<>>
    /\ \E p \in Procs :
          /\ response[p].status = HTTP_OK
          /\ response[p].action = ""
          /\ response[p].counts # ZeroCounts
          /\ response[p] = plain.response

\* ---- rows are kept and stay linked (SpecThread)

\* C39: no step removes a row of the comments table or changes the article,
\* the author or the parent of the row an id names, and no step takes
\* is_deleted from true back to false; so in every state the parent a row
\* names is a row of the table, whatever was deleted after the reply was
\* created.
C39_RowsKeptAndLinked ==
    /\ [](\A c \in CommentIds :
            comments[c].parent_id # Null => comments[c].parent_id \in CommentIds)
    /\ [][/\ Len(comments') >= Len(comments)
          /\ \A c \in CommentIds :
               /\ comments'[c].article_id = comments[c].article_id
               /\ comments'[c].author_id = comments[c].author_id
               /\ comments'[c].parent_id = comments[c].parent_id
               /\ comments[c].is_deleted => comments'[c].is_deleted
         ]_vars

\* C39 happens: the author's delete of the first comment, not deleted
\* before, has committed while a reply to it, created earlier, is stored;
\* the reply still names its parent
C39_Witness ==
    /\ \E p \in Procs :
          /\ pc[p] = "del_count"
          /\ req[p].comment_id = 1
          /\ ~req[p].was_deleted
    /\ comments[1].is_deleted
    /\ comments[1].content = TOMBSTONE_AUTHOR
    /\ \E c \in CommentIds \ {1} :
          /\ comments[c].parent_id = 1
          /\ ~comments[c].is_deleted

\* ---- reactions, concurrent requests (SpecReactConc)

\* C8: with concurrent toggle_reaction requests of one user on one comment,
\* at most one reaction row exists for the pair in every reachable state.
C8_OneRowPerPairConcurrent ==
    Cardinality(RowsOfPair(reactions, 1, 1)) <= 1

\* C37: with toggle_reaction requests interleaved at their database and
\* cache steps, once every request has completed the cached mapping of the
\* comment is absent or equal to the tally of the comment's stored rows.
C37_QuiescentCacheMatchesRows ==
    Idle =>
       (reaction_cache[1].present =>
           \A t \in ReactionTypes :
              reaction_cache[1].counts[t] = Cardinality(RowsOfKind(reactions, 1, t)))

\* ---- rate limit (SpecRate)

CommentsBy(user_id) == {c \in CommentIds : comments[c].author_id = user_id}

\* C4: within one window of a user, the first 10 rate checks pass and every
\* later one is rejected (no check passes once one was rejected, and a check
\* is rejected only after 10 have passed); every check that passed wrote its
\* comment and no rejected one wrote any.
C4_TenPerWindow ==
    \A u \in Users :
        /\ rate_window[u].passed <= 10
        /\ rate_window[u].rejected > 0 => rate_window[u].passed = 10
        /\ Idle => Cardinality(CommentsBy(u)) = rate_window[u].total_passed

\* C13: once an hour has passed since the first counted call of an author's
\* window, the counter has expired, also when a rate check was interrupted
\* between the increment and the setting of the expiry.
C13_WindowExpiresAfterHour ==
    \A u \in Users : rate_window[u].hour_over => ~rate_keys[u].present

\* C14: no create request fails in the rate limiter: when no cache is
\* configured or an operation of the cache fails, check_rate_limit allows the
\* request, which goes on to the depth check and the write.
C14_RateLimiterFailsOpen ==
    \A p \in Procs : pc[p] # "cc_failed"

\* C4 happens: a user's 11th call of a window was answered 429
C4_Witness ==
    /\ \E u \in Users : rate_window[u].passed = 10 /\ rate_window[u].rejected >= 1
    /\ \E p \in Procs : response[p].status = HTTP_TOO_MANY

\* ---- rate limit and depth limit together (SpecRateDepth)

\* a step in which process p runs the rate check of a create request
RateCheckStep(p) ==
    /\ pc[p] = "idle"
    /\ \/ pc'[p] \in {"cc_expire", "cc_depth"}
       \/ response'[p].status = HTTP_TOO_MANY /\ rate_keys' # rate_keys
    /\ \A u \in Users : rate_keys[u].present => rate_keys'[u].present

\* C15: every rate check adds exactly one to the counter of its author and
\* leaves the other counters alone; no step lowers a counter that stays in
\* the cache; a rejection by the depth limit comes after the rate check and
\* gives nothing back, so, between requests, a counter equals the number of
\* checks of its window, passed or rejected, and the author's comments are
\* no more than the checks the author passed.
C15_EveryCheckConsumesSlot ==
    /\ [](\A u \in Users :
            Idle => /\ rate_keys[u].present =>
                         rate_keys[u].count = rate_window[u].passed + rate_window[u].rejected
                    /\ Cardinality(CommentsBy(u)) <= rate_window[u].total_passed)
    /\ [][/\ \A u \in Users :
               (rate_keys[u].present /\ rate_keys'[u].present) =>
                  rate_keys'[u].count >= rate_keys[u].count
          /\ \A p \in Procs :
               /\ RateCheckStep(p) =>
                     \E u \in Users :
                        /\ rate_keys'[u].present
                        /\ rate_keys'[u].count =
                              (IF rate_keys[u].present THEN rate_keys[u].count ELSE 0) + 1
                        /\ \A v \in Users \ {u} : rate_keys'[v] = rate_keys[v]
               /\ (pc[p] = "cc_depth" /\ response'[p].status = HTTP_BAD_REQUEST) =>
                     (rate_keys' = rate_keys /\ comments' = comments)
         ]_vars

\* ---- rate limit, concurrent requests (SpecRateConc)

\* C36: with create requests of one author interleaved at their cache
\* operations, every rate check adds exactly one to the counter, at most 10
\* checks of a window pass, and the expiry of a window is set once: by the
\* call that counted 1, alone at that point, on a counter that has no expiry
\* yet; an expiry that is set is never taken back while the counter lasts.
C36_AtomicCounterExpiryOnce ==
    /\ [](/\ rate_window[1].passed <= 10
          /\ \A p \in Procs :
                pc[p] = "cc_expire" =>
                   /\ req[p].count = 1
                   /\ rate_keys[req[p].author_id].present
                   /\ ~rate_keys[req[p].author_id].expires
                   /\ \A q \in Procs \ {p} : pc[q] # "cc_expire")
    /\ [][/\ \A p \in Procs :
               create_comment_check_rate_limit(p, 1, 1, Null, "text") =>
                  /\ rate_keys'[1].present
                  /\ rate_keys'[1].count =
                        (IF rate_keys[1].present THEN rate_keys[1].count ELSE 0) + 1
                  /\ (pc'[p] = "idle" /\ response'[p].status = HTTP_TOO_MANY)
                        <=> (rate_keys'[1].count > 10)
          /\ (~rate_keys[1].expires /\ rate_keys'[1].expires) =>
                \E p \in Procs :
                   pc[p] = "cc_expire" /\ pc'[p] # "cc_expire" /\ req[p].count = 1
          /\ (rate_keys[1].expires /\ rate_keys'[1].present) => rate_keys'[1].expires
         ]_vars

\* C36 happens: the first call of a window has counted 1 and not yet set the
\* expiry while the other process made the calls that counted 2 to 11, the
\* last of them answered 429
C36_Witness ==
    /\ \E p \in Procs : pc[p] = "cc_expire" /\ req[p].count = 1
    /\ rate_keys[1].present /\ rate_keys[1].count = 11 /\ ~rate_keys[1].expires
    /\ \E q \in Procs : pc[q] = "idle" /\ response[q].status = HTTP_TOO_MANY
    /\ Len(comments) = 9

\* C15 happens: in one window an author had a reply rejected by the depth
\* limit and a later request rejected by the rate limit at count 11
C15_Witness ==
    /\ Idle
    /\ \E u \in Users :
          /\ rate_keys[u].present /\ rate_keys[u].count = 11
          /\ rate_window[u].passed = 10 /\ rate_window[u].rejected = 1
          /\ Cardinality(CommentsBy(u)) < rate_window[u].total_passed
    /\ \E p \in Procs : response[p].status = HTTP_TOO_MANY

\* ---- article workflow (SpecArticle)

\* C40: for any sequence of calls of the article service, an article
\* becomes PENDING_REVIEW only from DRAFT and by a submit_for_review of its
\* author, becomes PUBLISHED only from PENDING_REVIEW, and an article that
\* is PUBLISHED is never DRAFT after a step.
C40_WorkflowNeverGoesBack ==
    [][\A a \in ArticleIds :
         /\ (articles[a].status # PENDING_REVIEW /\ articles'[a].status = PENDING_REVIEW) =>
               /\ articles[a].status = DRAFT
               /\ \E p \in Procs : submit_for_review(p, a, articles[a].author_id)
         /\ (articles[a].status # PUBLISHED /\ articles'[a].status = PUBLISHED) =>
               articles[a].status = PENDING_REVIEW
         /\ articles[a].status = PUBLISHED => articles'[a].status # DRAFT
      ]_vars

====
